---- MODULE Spec2Model ----
(***************************************************************************)
(* Model of the track/telemetry fusion engine of V2X-Communication:        *)
(* EnhancedTracker (src/src/preception/tracking_module.py), the message    *)
(* assembler SumoOutputModule (src/src/preception/output_module.py), and   *)
(* the coordinate mapper SumoToDetections                                  *)
(* (src/src/simulation/sumo_to_detection.py) as SumoInputModule            *)
(* (src/src/perception/input_module.py) drives it.                         *)
(*                                                                         *)
(* Numbers.  Python floats are modelled by integers; the inputs are chosen *)
(* so that every quantity the code computes from them is an integer        *)
(* (bbox corners with even sums, headings that are multiples of 90         *)
(* degrees, dt = 0.1 as a multiplication by 10).                           *)
(* Optional values.  Python None is NoneId for a vehicle id and the empty  *)
(* tuple NonePos for a world position; a sumo_vehicles argument of None    *)
(* and of [] take the same branch of the code and are both <<>>.           *)
(* Dictionaries are functions whose DOMAIN is the key set; list(d.keys())  *)
(* is modelled by that key set.  A dictionary key that a call may leave    *)
(* unset is <<>> when unset and <<v>> when set to v.                       *)
(* Exceptions.  A call that raises records the exception's name in         *)
(* last.error; nothing in the pipeline catches it, so no call follows.     *)
(***************************************************************************)
EXTENDS Integers, Sequences, FiniteSets, TLC

VARIABLES
    use_sumo_matching,      \* EnhancedTracker.use_sumo_matching
    vehicle_history,        \* EnhancedTracker.vehicle_history : track_id -> list of states
    track_to_sumo_mapping,  \* EnhancedTracker.track_to_sumo_mapping : track_id -> vehicle id
    frame_count,            \* EnhancedTracker.frame_count
    appended,               \* every state ever appended to vehicle_history, per track_id
    last,                   \* the most recent call: its name, arguments and return value
    step_length,            \* config['step_length'], in tenths of a second
    world_bbox,             \* SumoToDetections.world_bbox; <<>> is None
    computed,               \* SumoToDetections._computed
    step,                   \* SumoRunner.run: the number of batches yielded so far
    is_running,             \* SumoInputModule.is_running
    run,                    \* the run loop: its configuration, locals and position
    sumo_runner             \* SumoInputModule.sumo_runner and its generator; kept by SpecStepper only

vars == <<use_sumo_matching, vehicle_history, track_to_sumo_mapping, frame_count,
          appended, last, step_length, world_bbox, computed, step, is_running, run,
          sumo_runner>>

\* the configuration and the coordinate mapper, which the tracker never writes
pipelineVars == <<step_length, world_bbox, computed, step, is_running, run, sumo_runner>>

\* the tracker, which the input and output modules never write
trackerVars == <<use_sumo_matching, vehicle_history, track_to_sumo_mapping,
                 frame_count, appended>>

----------------------------------------------------------------------------
(* Bounds of the model *)

\* number of update calls explored with the full input sets
MaxFrames == 2

\* number of update calls explored by the long-run specification
MaxLongFrames == 32

\* number of leading update calls of the long run that use the full input sets
LongBranchFrames == 1

----------------------------------------------------------------------------
(* Program constants *)

\* update_vehicle_history keeps the last 30 states
HistoryCap == 30

\* match_track_to_sumo_vehicle: "distance < 50"
MatchThreshold == 50

\* calculate_acceleration: dt = 0.1, so dividing by dt multiplies by 10
InvDt == 10

\* predict_vehicle_position: 'confidence': 0.8, in tenths
ConfidenceTenths == 8

\* calculate_track_vehicle_distance draws from uniform(0, 100)
RandomHigh == 100

\* create_v2x_config: 'step_length': 0.1, in tenths of a second
DefaultStepLength == 1

\* create_v2x_config: 'broadcast_interval': 5
DefaultBroadcastInterval == 5

\* run_v2x_pipeline: "if frame_count >= 1000"
FrameLimit == 1000

\* create_v2x_config: 'world_bbox': None
DefaultWorldBbox == <<>>

----------------------------------------------------------------------------
(* Input sets *)

NoneId == "None"
NonePos == <<>>

TrackIds == {1, 2}

\* ids a query may be asked about: 0 is a falsy id (None or 0), 3 was never tracked
QueryIds == {0, 1, 2, 3}

VehicleIds == {"a", "b"}

\* track.tlbr of each track; the centres are (10,10) and (50,10)
BboxOf(id) == IF id = 1 THEN <<0, 0, 20, 20>> ELSE <<40, 0, 60, 20>>

\* what a vehicle can report in one step: position, speed, heading
NearPose == [x |-> 10, y |-> 90, speed |-> 0,  angle |-> 0]
FarPose  == [x |-> 90, y |-> 90, speed |-> 10, angle |-> 90]

\* vehicle "a" is seen standing at NearPose or moving at FarPose, "b" at FarPose
PosesOf(id) == IF id = "a" THEN {NearPose, FarPose} ELSE {FarPose}

\* values calculate_track_vehicle_distance can return
DistValues == { d \in {20, 40, 50} : d >= 0 /\ d < RandomHigh }

\* max_distance arguments of get_v2x_relevant_tracks
RangeValues == {50, 80}

\* time_ahead arguments of predict_vehicle_position
Horizons == {1, 2}

\* the coordinate mapper of Scenario A: world bbox and image size
WorldBbox == <<0, 0, 100, 100>>
ImageSize == <<100, 100>>

Track(id) ==
    [track_id |-> id, tlbr |-> BboxOf(id), score |-> 1, cls |-> 1,
     is_activated |-> TRUE, tracklet_len |-> 1]

Vehicle(id, p) ==
    [id |-> id, x |-> p.x, y |-> p.y, speed |-> p.speed, angle |-> p.angle]

\* outputs of the tracker: tracks with distinct ids
TrackLists == { <<>>, <<Track(1)>>, <<Track(2)>>, <<Track(1), Track(2)>> }

\* telemetry lists: vehicles with distinct ids, in either order
VehicleLists ==
    { <<>> }
    \cup UNION { { <<Vehicle(v, p)>> : p \in PosesOf(v) } : v \in VehicleIds }
    \cup { <<Vehicle("a", p), Vehicle("b", q)>> : p \in PosesOf("a"), q \in PosesOf("b") }
    \cup { <<Vehicle("b", q), Vehicle("a", p)>> : p \in PosesOf("a"), q \in PosesOf("b") }

----------------------------------------------------------------------------
(* Pure helpers *)

\* Python int(a / b) for b > 0: truncation toward zero
TruncDiv(a, b) == IF a >= 0 THEN a \div b ELSE -((-a) \div b)

\* mutant of world_to_pixel: the y axis is not flipped
world_to_pixel_NoFlip(x, y, bbox, image_size) ==
    <<TruncDiv((x - bbox[1]) * (image_size[1] - 1), bbox[3] - bbox[1]),
      TruncDiv((y - bbox[2]) * (image_size[2] - 1), bbox[4] - bbox[2])>>

\* SumoToDetections.world_to_pixel
world_to_pixel(x, y, bbox, image_size) ==
    LET xmin == bbox[1]
        ymin == bbox[2]
        xmax == bbox[3]
        ymax == bbox[4]
        \* nx * (W-1) and (1 - ny) * (H-1) over the common denominators
        px == TruncDiv((x - xmin) * (image_size[1] - 1), xmax - xmin)
        py == TruncDiv((ymax - y) * (image_size[2] - 1), ymax - ymin)
    IN  <<px, py>>

\* track_center of match_track_to_sumo_vehicle / 'center' of the enhanced dict
Center(tlbr) == << (tlbr[1] + tlbr[3]) \div 2, (tlbr[2] + tlbr[4]) \div 2 >>

\* math.cos / math.sin of a heading in degrees (multiples of 90)
CosDeg(a) == CASE a % 360 = 0 -> 1 [] a % 360 = 180 -> -1 [] OTHER -> 0
SinDeg(a) == CASE a % 360 = 90 -> 1 [] a % 360 = 270 -> -1 [] OTHER -> 0

\* the last n elements of s (s[-n:] for 0 < n <= len(s))
LastN(s, n) == SubSeq(s, Len(s) - n + 1, Len(s))

----------------------------------------------------------------------------
(* EnhancedTracker: fusing one track *)

\* mutant of create_enhanced_track_dict: the default direction vector is the one
\* of the default angle 0.0 instead of (0.0, 0.0)
create_enhanced_track_dict_DirectionOfAngle(track, fc) ==
    [track_id         |-> track.track_id,
     bbox             |-> track.tlbr,
     score            |-> track.score,
     class            |-> track.cls,
     center           |-> Center(track.tlbr),
     frame_count      |-> fc,
     is_confirmed     |-> track.is_activated,
     track_len        |-> track.tracklet_len,
     sumo_id          |-> NoneId,
     world_position   |-> NonePos,
     speed            |-> 0,
     angle            |-> 0,
     acceleration     |-> 0,
     direction_vector |-> <<CosDeg(0), SinDeg(0)>>,
     has_sumo_data    |-> FALSE]

\* create_enhanced_track_dict
create_enhanced_track_dict(track, fc) ==
    [track_id         |-> track.track_id,
     bbox             |-> track.tlbr,
     score            |-> track.score,
     class            |-> track.cls,
     center           |-> Center(track.tlbr),
     frame_count      |-> fc,
     is_confirmed     |-> track.is_activated,
     track_len        |-> track.tracklet_len,
     sumo_id          |-> NoneId,
     world_position   |-> NonePos,
     speed            |-> 0,
     angle            |-> 0,
     acceleration     |-> 0,
     direction_vector |-> <<0, 0>>,
     has_sumo_data    |-> FALSE]

\* calculate_track_vehicle_distance: np.random.uniform(0, 100), whatever the
\* centre and the vehicle are; draw is the value drawn by this call
calculate_track_vehicle_distance(track_center, vehicle, draw) == draw

\* "distance < best_distance", best_distance being float('inf') (the empty
\* tuple) until a first candidate is taken
BelowBest(distance, best_distance) ==
    best_distance = <<>> \/ distance < best_distance[1]

\* the condition of line 151 under which a candidate replaces the best match
TakesCandidate(distance, best_distance) ==
    BelowBest(distance, best_distance) /\ distance < MatchThreshold

\* the proximity loop of match_track_to_sumo_vehicle from vehicle j on;
\* best_match is <<>> for None, <<vehicle>> otherwise
RECURSIVE ProximityScan(_, _, _, _, _, _)
ProximityScan(track_center, sumo_vehicles, draws, j, best_match, best_distance) ==
    IF j > Len(sumo_vehicles) THEN best_match
    ELSE LET vehicle  == sumo_vehicles[j]
             distance == calculate_track_vehicle_distance(track_center, vehicle, draws[j])
         IN  IF TakesCandidate(distance, best_distance)
             THEN ProximityScan(track_center, sumo_vehicles, draws, j + 1,
                                <<vehicle>>, <<distance>>)
             ELSE ProximityScan(track_center, sumo_vehicles, draws, j + 1,
                                best_match, best_distance)

\* the loop over the existing mapping: the first vehicle whose id is sumo_id
RECURSIVE FirstWithId(_, _, _)
FirstWithId(sumo_vehicles, sumo_id, j) ==
    IF j > Len(sumo_vehicles) THEN <<>>
    ELSE IF sumo_vehicles[j].id = sumo_id THEN <<sumo_vehicles[j]>>
    ELSE FirstWithId(sumo_vehicles, sumo_id, j + 1)

\* mutant of StickyLookup: the existing mapping is never used
StickyLookup_Ignored(track_id, sumo_vehicles, mapping) == <<>>

\* the existing-mapping lookup of match_track_to_sumo_vehicle
StickyLookup(track_id, sumo_vehicles, mapping) ==
    IF track_id \in DOMAIN mapping
    THEN FirstWithId(sumo_vehicles, mapping[track_id], 1)
    ELSE <<>>

\* mutant of match_track_to_sumo_vehicle: a mapped track whose vehicle has left
\* the list is reported unmatched without a new search
match_track_to_sumo_vehicle_NoSearchWhenStale(track, sumo_vehicles, mapping, draws) ==
    LET track_center == Center(track.tlbr)
        sticky       == StickyLookup(track.track_id, sumo_vehicles, mapping)
    IN  IF sticky # <<>>
        THEN [vehicle |-> sticky, searched |-> FALSE]
        ELSE IF track.track_id \in DOMAIN mapping
        THEN [vehicle |-> <<>>, searched |-> FALSE]
        ELSE [vehicle  |-> ProximityScan(track_center, sumo_vehicles, draws, 1, <<>>, <<>>),
              searched |-> TRUE]

\* match_track_to_sumo_vehicle: the vehicle returned (<<>> for None) and
\* whether the proximity loop ran
match_track_to_sumo_vehicle(track, sumo_vehicles, mapping, draws) ==
    LET track_center == Center(track.tlbr)
        sticky       == StickyLookup(track.track_id, sumo_vehicles, mapping)
    IN  IF sticky # <<>>
        THEN [vehicle |-> sticky, searched |-> FALSE]
        ELSE [vehicle  |-> ProximityScan(track_center, sumo_vehicles, draws, 1, <<>>, <<>>),
              searched |-> TRUE]

\* mutant of calculate_acceleration: one history entry is enough
calculate_acceleration_OneEntry(hist, track_id, current_speed) ==
    IF track_id \notin DOMAIN hist THEN 0
    ELSE IF Len(hist[track_id]) < 1 THEN 0
    ELSE LET prev_speed == hist[track_id][Len(hist[track_id])].speed
         IN  (current_speed - prev_speed) * InvDt

\* calculate_acceleration
calculate_acceleration(hist, track_id, current_speed) ==
    IF track_id \notin DOMAIN hist THEN 0
    ELSE IF Len(hist[track_id]) < 2 THEN 0
    ELSE LET prev_speed == hist[track_id][Len(hist[track_id])].speed
         IN  (current_speed - prev_speed) * InvDt

\* calculate_direction_vector
calculate_direction_vector(angle) == <<CosDeg(angle), SinDeg(angle)>>

\* mutant of SetMapping: the mapping is not updated on a match
SetMapping_Dropped(mapping, track_id, sumo_id) == mapping

\* "self.track_to_sumo_mapping[track.track_id] = matched_vehicle['id']"
SetMapping(mapping, track_id, sumo_id) ==
    [k \in DOMAIN mapping \cup {track_id} |->
        IF k = track_id THEN sumo_id ELSE mapping[k]]

\* the matched branch of enhance_track_with_sumo: the fields taken from the vehicle
WithSumoData(enhanced_track, matched_vehicle, hist) ==
    [enhanced_track EXCEPT
        !.sumo_id          = matched_vehicle.id,
        !.world_position   = <<matched_vehicle.x, matched_vehicle.y>>,
        !.speed            = matched_vehicle.speed,
        !.angle            = matched_vehicle.angle,
        !.has_sumo_data    = TRUE,
        !.acceleration     = calculate_acceleration(hist, enhanced_track.track_id,
                                                    matched_vehicle.speed),
        !.direction_vector = calculate_direction_vector(matched_vehicle.angle)]

\* enhance_track_with_sumo: the enhanced track, the mapping after the call and
\* whether the proximity loop ran for this track
enhance_track_with_sumo(track, sumo_vehicles, mapping, hist, fc, use, draws) ==
    IF sumo_vehicles = <<>> \/ ~use
    THEN [track    |-> create_enhanced_track_dict(track, fc),
          mapping  |-> mapping,
          searched |-> FALSE]
    ELSE LET m == match_track_to_sumo_vehicle(track, sumo_vehicles, mapping, draws)
             enhanced_track == create_enhanced_track_dict(track, fc)
         IN  IF m.vehicle # <<>>
             THEN [track    |-> WithSumoData(enhanced_track, m.vehicle[1], hist),
                   mapping  |-> SetMapping(mapping, track.track_id, m.vehicle[1].id),
                   searched |-> m.searched]
             ELSE [track    |-> enhanced_track,
                   mapping  |-> mapping,
                   searched |-> m.searched]

\* whether update runs the proximity loop for this track: telemetry is used and
\* the track has no mapping to a vehicle of the list (track ids are distinct, so
\* the mapping of a track at its turn is the mapping at the start of update)
RunsProximityLoop(track, sumo_vehicles, mapping, use) ==
    /\ sumo_vehicles # <<>>
    /\ use
    /\ StickyLookup(track.track_id, sumo_vehicles, mapping) = <<>>

\* the values drawn in one update: one per call of calculate_track_vehicle_distance,
\* that is per (track index, vehicle index) of a track the proximity loop runs for
DistTables(byte_tracks, sumo_vehicles, mapping, use) ==
    [ { i \in 1..Len(byte_tracks) :
          RunsProximityLoop(byte_tracks[i], sumo_vehicles, mapping, use) }
      \X (1..Len(sumo_vehicles)) -> DistValues ]

\* the draws of the calls made for track i: one per vehicle, in list order
DrawsFor(dist, i, sumo_vehicles) ==
    [j \in 1..Len(sumo_vehicles) |->
        IF <<i, j>> \in DOMAIN dist THEN dist[<<i, j>>] ELSE 0]

\* mutant of EnhanceLoop: a track that was not matched is left out
RECURSIVE EnhanceLoop_SkipsUnmatched(_, _, _, _, _, _, _, _, _, _)
EnhanceLoop_SkipsUnmatched(byte_tracks, i, sumo_vehicles, mapping, hist, fc, use, dist, enhanced_tracks, searched) ==
    IF i > Len(byte_tracks)
    THEN [enhanced_tracks |-> enhanced_tracks, mapping |-> mapping, searched |-> searched]
    ELSE LET e == enhance_track_with_sumo(byte_tracks[i], sumo_vehicles, mapping, hist,
                                          fc, use, DrawsFor(dist, i, sumo_vehicles))
         IN  EnhanceLoop_SkipsUnmatched(byte_tracks, i + 1, sumo_vehicles, e.mapping, hist,
                         fc, use, dist,
                         IF e.track.has_sumo_data THEN Append(enhanced_tracks, e.track)
                                                  ELSE enhanced_tracks,
                         IF e.searched THEN searched \cup {byte_tracks[i].track_id}
                                       ELSE searched)

\* the loop of update over byte_tracks from track i on, threading the mapping;
\* searched collects the track ids the proximity loop ran for
RECURSIVE EnhanceLoop(_, _, _, _, _, _, _, _, _, _)
EnhanceLoop(byte_tracks, i, sumo_vehicles, mapping, hist, fc, use, dist, enhanced_tracks, searched) ==
    IF i > Len(byte_tracks)
    THEN [enhanced_tracks |-> enhanced_tracks, mapping |-> mapping, searched |-> searched]
    ELSE LET e == enhance_track_with_sumo(byte_tracks[i], sumo_vehicles, mapping, hist,
                                          fc, use, DrawsFor(dist, i, sumo_vehicles))
         IN  EnhanceLoop(byte_tracks, i + 1, sumo_vehicles, e.mapping, hist, fc, use, dist,
                         Append(enhanced_tracks, e.track),
                         IF e.searched THEN searched \cup {byte_tracks[i].track_id}
                                       ELSE searched)

----------------------------------------------------------------------------
(* EnhancedTracker: the history ledger *)

\* mutant of HistoryState: the entry is tagged with the frame count read
\* before update incremented it
HistoryState_FrameBefore(track, fc) ==
    [frame          |-> fc - 1,
     position       |-> track.center,
     speed          |-> track.speed,
     angle          |-> track.angle,
     world_position |-> track.world_position]

\* the state update_vehicle_history stores for one enhanced track
HistoryState(track, fc) ==
    [frame          |-> fc,
     position       |-> track.center,
     speed          |-> track.speed,
     angle          |-> track.angle,
     world_position |-> track.world_position]

\* mutant of KeepRecent: the history is never truncated
KeepRecent_NoTruncation(h) == h

\* mutant of KeepRecent: the first 30 entries are kept instead of the last
KeepRecent_KeepsOldest(h) == IF Len(h) > HistoryCap THEN SubSeq(h, 1, HistoryCap) ELSE h

\* "if len(h) > 30: h = h[-30:]"
KeepRecent(h) == IF Len(h) > HistoryCap THEN LastN(h, HistoryCap) ELSE h

\* mutant of AppendHistory: the ledger is rebuilt from the track being recorded
AppendHistory_OnlyEmitted(hist, track, fc) ==
    LET track_id == track.track_id
        old      == IF track_id \in DOMAIN hist THEN hist[track_id] ELSE <<>>
        new      == KeepRecent(Append(old, HistoryState(track, fc)))
    IN  [k \in {track_id} |-> new]

\* one iteration of update_vehicle_history
AppendHistory(hist, track, fc) ==
    LET track_id == track.track_id
        old      == IF track_id \in DOMAIN hist THEN hist[track_id] ELSE <<>>
        new      == KeepRecent(Append(old, HistoryState(track, fc)))
    IN  [k \in DOMAIN hist \cup {track_id} |-> IF k = track_id THEN new ELSE hist[k]]

\* update_vehicle_history
RECURSIVE update_vehicle_history(_, _, _, _)
update_vehicle_history(hist, enhanced_tracks, i, fc) ==
    IF i > Len(enhanced_tracks) THEN hist
    ELSE update_vehicle_history(AppendHistory(hist, enhanced_tracks[i], fc),
                                enhanced_tracks, i + 1, fc)

\* the record of every append: the same loop without the cap
RECURSIVE RecordAppends(_, _, _, _)
RecordAppends(log, enhanced_tracks, i, fc) ==
    IF i > Len(enhanced_tracks) THEN log
    ELSE LET track_id == enhanced_tracks[i].track_id
             old      == IF track_id \in DOMAIN log THEN log[track_id] ELSE <<>>
             new      == Append(old, HistoryState(enhanced_tracks[i], fc))
         IN  RecordAppends([k \in DOMAIN log \cup {track_id} |->
                               IF k = track_id THEN new ELSE log[k]],
                           enhanced_tracks, i + 1, fc)

----------------------------------------------------------------------------
(* EnhancedTracker: queries *)

\* mutant of predict_vehicle_position: one history entry is taken as enough
predict_vehicle_position_OneEntry(hist, track_id, time_ahead) ==
    IF track_id \notin DOMAIN hist THEN <<>>
    ELSE IF Len(hist[track_id]) < 1 THEN <<>>
    ELSE LET current_state == hist[track_id][Len(hist[track_id])]
         IN  IF current_state.world_position # NonePos
             THEN LET x     == current_state.world_position[1]
                      y     == current_state.world_position[2]
                      speed == current_state.speed
                  IN  << [x |-> x + speed * time_ahead * CosDeg(current_state.angle),
                          y |-> y + speed * time_ahead * SinDeg(current_state.angle),
                          confidence |-> ConfidenceTenths] >>
             ELSE <<>>

\* predict_vehicle_position; <<>> is None
predict_vehicle_position(hist, track_id, time_ahead) ==
    IF track_id \notin DOMAIN hist THEN <<>>
    ELSE IF Len(hist[track_id]) < 2 THEN <<>>
    ELSE LET current_state == hist[track_id][Len(hist[track_id])]
         IN  IF current_state.world_position # NonePos
             THEN LET x     == current_state.world_position[1]
                      y     == current_state.world_position[2]
                      speed == current_state.speed
                  IN  << [x |-> x + speed * time_ahead * CosDeg(current_state.angle),
                          y |-> y + speed * time_ahead * SinDeg(current_state.angle),
                          confidence |-> ConfidenceTenths] >>
             ELSE <<>>

\* mutant of WithinRange: "distance < max_distance"
WithinRange_Strict(ego_pos, track_pos, max_distance) ==
    /\ max_distance > 0
    /\ (ego_pos[1] - track_pos[1]) * (ego_pos[1] - track_pos[1])
       + (ego_pos[2] - track_pos[2]) * (ego_pos[2] - track_pos[2])
       < max_distance * max_distance

\* "distance <= max_distance" with distance = sqrt(dx^2 + dy^2)
WithinRange(ego_pos, track_pos, max_distance) ==
    /\ max_distance >= 0
    /\ (ego_pos[1] - track_pos[1]) * (ego_pos[1] - track_pos[1])
       + (ego_pos[2] - track_pos[2]) * (ego_pos[2] - track_pos[2])
       <= max_distance * max_distance

\* mutant of AllKnownTracks: nothing is returned when the filter cannot run
AllKnownTracks_Nothing(hist) == {}

\* what get_v2x_relevant_tracks returns when it cannot filter
AllKnownTracks(hist) == DOMAIN hist

\* get_v2x_relevant_tracks; ego_track_id 0 is a falsy id
get_v2x_relevant_tracks(hist, ego_track_id, max_distance) ==
    IF ego_track_id = 0 THEN AllKnownTracks(hist)
    ELSE IF ego_track_id \notin DOMAIN hist \/ hist[ego_track_id] = <<>>
         THEN AllKnownTracks(hist)
    ELSE LET ego_pos == hist[ego_track_id][Len(hist[ego_track_id])].world_position
         IN  IF ego_pos = NonePos THEN AllKnownTracks(hist)
             ELSE { track_id \in DOMAIN hist :
                      /\ track_id # ego_track_id
                      /\ hist[track_id] # <<>>
                      /\ hist[track_id][Len(hist[track_id])].world_position # NonePos
                      /\ WithinRange(ego_pos,
                                     hist[track_id][Len(hist[track_id])].world_position,
                                     max_distance) }

\* the Python slice s[-n:] for n >= 0: s[-0:] is s[0:], the whole list
SliceFromMinus(s, n) ==
    IF n = 0 THEN s
    ELSE IF n >= Len(s) THEN s
    ELSE LastN(s, n)

\* get_vehicle_trajectory
get_vehicle_trajectory(hist, track_id, num_points) ==
    IF track_id \notin DOMAIN hist THEN <<>>
    ELSE LET history == hist[track_id]
         IN  IF Len(history) >= num_points
             THEN SliceFromMinus(history, num_points)
             ELSE history

----------------------------------------------------------------------------
(* SumoOutputModule *)

\* "class_id == 0": the pedestrian class
PedestrianClass == 0

\* "speed < 0.5", in tenths of a metre per second
StationaryBelow == 5

\* "speed > 15", in tenths of a metre per second
HighSpeedAbove == 150

\* a speed in metres per second, held in tenths so that 0.5 is a number of
\* the model
SpeedTenths(speed) == speed * 10

\* mutant of classify_v2x_message_type: "speed >= 15" is high speed
classify_v2x_message_type_HighFromThreshold(class_id, speed) ==
    IF class_id = PedestrianClass THEN "VRU"
    ELSE IF speed < StationaryBelow THEN "CAM_STATIONARY"
    ELSE IF speed >= HighSpeedAbove THEN "CAM_HIGH_SPEED"
    ELSE "CAM_NORMAL"

\* _classify_v2x_message_type; speed is in tenths of a metre per second
classify_v2x_message_type(class_id, speed) ==
    IF class_id = PedestrianClass THEN "VRU"
    ELSE IF speed < StationaryBelow THEN "CAM_STATIONARY"
    ELSE IF speed > HighSpeedAbove THEN "CAM_HIGH_SPEED"
    ELSE "CAM_NORMAL"

\* SumoOutputModule.class_names as run_v2x_pipeline passes it
ClassNames ==
    [c \in 0..5 |->
        CASE c = 0 -> "person" [] c = 1 -> "car" [] c = 2 -> "truck"
          [] c = 3 -> "bus" [] c = 4 -> "motorcycle" [] OTHER -> "bicycle"]

\* self.class_names.get(class_id, "unknown")
ClassName(class_id) ==
    IF class_id \in DOMAIN ClassNames THEN ClassNames[class_id] ELSE "unknown"

\* 'range_km': 1.0
RangeKm == 1

\* the attributes of a track value: a tracker object (it carries tlbr) has its
\* fields as attributes, a dict has none of these names as attributes
Attributes(track) == IF "tlbr" \in DOMAIN track THEN DOMAIN track ELSE {}

\* hasattr(track, name)
HasAttr(track, name) == name \in Attributes(track)

\* track.get(key, default) on a dict
DictGet(track, key, default) == IF key \in DOMAIN track THEN track[key] ELSE default

\* int(v): truncation toward zero
IntOf(v) == TruncDiv(v, 1)

\* map(int, bbox)
IntBbox(bbox) == [k \in 1..Len(bbox) |-> IntOf(bbox[k])]

\* one iteration of the loop of to_json: vehicle_data for a track; a key that is
\* not set is <<>>, a key set to v is <<v>>
VehicleData(track, timestep, include_v2x_data) ==
    LET object   == HasAttr(track, "tlbr")
        bbox     == IF object THEN IntBbox(track.tlbr)
                    ELSE IntBbox(DictGet(track, "bbox", <<0, 0, 0, 0>>))
        track_id == IF object THEN track.track_id ELSE DictGet(track, "track_id", 0)
        class_id == IF object THEN (IF HasAttr(track, "cls") THEN track.cls ELSE 1)
                    ELSE DictGet(track, "class", 1)
        conf     == IF object THEN (IF HasAttr(track, "score") THEN track.score ELSE 1)
                    ELSE DictGet(track, "score", 1)
        speed    == IF HasAttr(track, "speed") THEN track.speed ELSE 0
    IN  [id         |-> track_id,
         bbox       |-> bbox,
         class      |-> ClassName(class_id),
         class_id   |-> class_id,
         confidence |-> conf,
         timestamp  |-> timestep,
         position   |-> IF include_v2x_data /\ HasAttr(track, "world_pos")
                        THEN << [x |-> track.world_pos[1], y |-> track.world_pos[2]] >>
                        ELSE <<>>,
         speed      |-> IF include_v2x_data /\ HasAttr(track, "speed")
                        THEN <<track.speed>> ELSE <<>>,
         heading    |-> IF include_v2x_data /\ HasAttr(track, "angle")
                        THEN <<track.angle>> ELSE <<>>,
         v2x_type   |-> IF include_v2x_data
                        THEN <<classify_v2x_message_type(class_id, SpeedTenths(speed))>>
                        ELSE <<>>]

\* to_json
to_json(tracks, timestep, include_v2x_data) ==
    LET vehicles == [i \in 1..Len(tracks) |->
                        VehicleData(tracks[i], timestep, include_v2x_data)]
    IN  [timestamp      |-> timestep,
         message_type   |-> "CAM",
         vehicles       |-> vehicles,
         total_vehicles |-> Len(vehicles)]

\* mutant of NearbyVehicles: the observer's own entry is kept
NearbyVehicles_All(vehicles, ego_vehicle_id) == vehicles

\* "[v for v in message['vehicles'] if v['id'] != ego_vehicle_id]"
NearbyVehicles(vehicles, ego_vehicle_id) ==
    LET Other(v) == v.id # ego_vehicle_id
    IN  SelectSeq(vehicles, Other)

\* create_v2x_broadcast; ego_vehicle_id 0 is a falsy id (None), for which the
\* key nearby_vehicles is not set
create_v2x_broadcast(tracks, ego_vehicle_id) ==
    LET message == to_json(tracks, 0, TRUE)
    IN  [timestamp       |-> message.timestamp,
         message_type    |-> "V2X_BROADCAST",
         vehicles        |-> message.vehicles,
         total_vehicles  |-> message.total_vehicles,
         ego_vehicle     |-> ego_vehicle_id,
         range_km        |-> RangeKm,
         nearby_vehicles |-> IF ego_vehicle_id # 0
                             THEN <<NearbyVehicles(message.vehicles, ego_vehicle_id)>>
                             ELSE <<>>]

----------------------------------------------------------------------------
(* SumoToDetections and SumoInputModule.get_frame_data *)

\* compute_world_bounds: "margin = 10.0"
BoundsMargin == 10

\* min and max of a non-empty set of numbers
MinOf(S) == CHOOSE m \in S : \A n \in S : m <= n
MaxOf(S) == CHOOSE m \in S : \A n \in S : m >= n

\* compute_world_bounds: the value assigned to world_bbox, for a non-empty list
compute_world_bounds(vehicles) ==
    LET xs == { vehicles[i].x : i \in 1..Len(vehicles) }
        ys == { vehicles[i].y : i \in 1..Len(vehicles) }
    IN  <<MinOf(xs) - BoundsMargin, MinOf(ys) - BoundsMargin,
          MaxOf(xs) + BoundsMargin, MaxOf(ys) + BoundsMargin>>

\* mutant of NeedsBounds: the bounds are computed from every batch
NeedsBounds_EveryBatch(bbox) == TRUE

\* "if not self.world_bbox" of vehicles_to_detections: None (or an empty tuple)
NeedsBounds(bbox) == bbox = <<>>

\* a box for which world_to_pixel divides by zero
Degenerate(bbox) == bbox[3] = bbox[1] \/ bbox[4] = bbox[2]

\* the world_to_pixel calls of vehicles_to_detections and, with the same
\* arguments, of create_visualization_frame: one result per vehicle
PixelsOf(vehicles, bbox) ==
    [i \in 1..Len(vehicles) |->
        world_to_pixel(vehicles[i].x, vehicles[i].y, bbox, ImageSize)]

\* SumoToDetections.__init__: "default_bbox_size_m=2.0"
DefaultBboxSizeM == 2

\* the smaller and the larger of two numbers (Python min and max)
Lower(a, b) == IF a <= b THEN a ELSE b
Upper(a, b) == IF a >= b THEN a ELSE b

\* "x1 = max(0, x1); y1 = max(0, y1); x2 = min(image_w-1, x2); y2 =
\* min(image_h-1, y2)": the clamp of both detection builders
ClampRect(x1, y1, x2, y2, image_size) ==
    <<Upper(0, x1), Upper(0, y1),
      Lower(image_size[1] - 1, x2), Lower(image_size[2] - 1, y2)>>

\* one row [x1, y1, x2, y2, conf, class_id] of a detection array, around the
\* pixel p with the half sizes given
DetectionRow(p, half_w, half_h, class_id) ==
    ClampRect(p[1] - half_w, p[2] - half_h, p[1] + half_w, p[2] + half_h, ImageSize)
        \o <<1, class_id>>

\* the loop of vehicles_to_detections (conf = 1.0, class_id = 1):
\* half_w = int((default_bbox_size_m * image_w / (xmax - xmin)) / 2) and
\* half_h = int(half_w * 0.6)
vehicles_to_detections(vehicles, bbox) ==
    LET half_w == TruncDiv(DefaultBboxSizeM * ImageSize[1], 2 * (bbox[3] - bbox[1]))
        half_h == TruncDiv(half_w * 6, 10)
    IN  [i \in 1..Len(vehicles) |->
            DetectionRow(world_to_pixel(vehicles[i].x, vehicles[i].y, bbox, ImageSize),
                         half_w, half_h, 1)]

\* _infer_class_from_id: an id that names no vehicle kind is a car, and so
\* is every id of VehicleIds (traci is not imported by the detection module,
\* so the lookup of the vehicle class always falls back to this)
infer_class_from_id(vehicle_id) == 1

\* _get_bbox_size: the base half sizes per class, and (12, 6) for any other
BaseSizes(class_id) ==
    CASE class_id = 0 -> <<8, 8>>
      [] class_id = 1 -> <<12, 6>>
      [] class_id = 2 -> <<18, 8>>
      [] class_id = 3 -> <<20, 10>>
      [] class_id = 4 -> <<6, 4>>
      [] class_id = 5 -> <<4, 4>>
      [] OTHER -> <<12, 6>>

\* _get_bbox_size: int(base * (1.0 + min(speed * 0.01, 0.3))), in hundredths
get_bbox_size(class_id, speed) ==
    LET factor == 100 + Lower(speed, 30)
    IN  <<TruncDiv(BaseSizes(class_id)[1] * factor, 100),
          TruncDiv(BaseSizes(class_id)[2] * factor, 100)>>

\* SumoDetectionModule.detect_from_sumo_data with the converter of the input
\* module, whose box is bbox
detect_from_sumo_data(vehicles, bbox) ==
    [i \in 1..Len(vehicles) |->
        LET class_id == infer_class_from_id(vehicles[i].id)
            size     == get_bbox_size(class_id, vehicles[i].speed)
        IN  DetectionRow(world_to_pixel(vehicles[i].x, vehicles[i].y, bbox, ImageSize),
                         size[1], size[2], class_id)]

\* get_frame_data on the batch the stepper yields: the box after the call, the
\* pixels computed, and the exception that leaves the call ("" for none).
\* min() of an empty list raises ValueError; a division by xmax - xmin = 0 or
\* ymax - ymin = 0 raises ZeroDivisionError
FrameData(vehicles, bbox_before) ==
    LET needs == NeedsBounds(bbox_before)
    IN  IF needs /\ vehicles = <<>>
        THEN [world_bbox |-> bbox_before, computed_now |-> FALSE,
              pixels |-> <<>>, detections |-> <<>>, error |-> "ValueError"]
        ELSE LET bbox == IF needs THEN compute_world_bounds(vehicles) ELSE bbox_before
             IN  IF vehicles # <<>> /\ Degenerate(bbox)
                 THEN [world_bbox |-> bbox, computed_now |-> needs,
                       pixels |-> <<>>, detections |-> <<>>,
                       error |-> "ZeroDivisionError"]
                 ELSE [world_bbox |-> bbox, computed_now |-> needs,
                       pixels |-> PixelsOf(vehicles, bbox),
                       detections |-> vehicles_to_detections(vehicles, bbox),
                       error |-> ""]

----------------------------------------------------------------------------
(* The state machine *)

\* what `last` holds for a call; fields a call does not have keep these values
NoCall ==
    [op |-> "none", byte_tracks |-> <<>>, sumo_vehicles |-> <<>>,
     track_id |-> 0, arg |-> 0,
     enhanced_tracks |-> <<>>, tracks |-> {}, prediction |-> <<>>,
     mapping_before |-> <<>>, searched |-> {}, history_before |-> <<>>,
     trajectory |-> <<>>, earlier |-> <<>>,
     class_id |-> 0, speed |-> 0, v2x_type |-> "",
     message |-> <<>>, include_v2x_data |-> TRUE,
     pixels |-> <<>>, detections |-> <<>>, bbox_before |-> <<>>, error |-> "",
     success |-> TRUE]

\* the run loop before any pipeline is constructed: no program, the defaults
\* of create_v2x_config, and the locals a run starts with.  pulls and
\* processed count the get_frame_data calls made and the frames processed;
\* v2x_messages holds, for every message appended, the frame index it was
\* generated at; cv2 tells whether the local name cv2 of run_v2x_pipeline is
\* bound; exit names the way the loop was left and outcome how the run ended
RunIdle ==
    [program |-> "none", pc |-> "idle",
     show_visualization |-> TRUE, broadcast_interval |-> DefaultBroadcastInterval,
     max_frames |-> 0,
     running |-> FALSE, frame_count |-> 0, v2x_messages |-> <<>>, cv2 |-> FALSE,
     pulls |-> 0, processed |-> 0,
     exit |-> "", released |-> FALSE, outcome |-> ""]

\* SumoRunner.__init__ and the generator SumoInputModule keeps of it:
\* traci is the state of the TraCI connection, simulation_generator that of
\* the generator object (none, created, suspended at its yield, finished),
\* index the local `step` of run; simulation_steps, generators, closes,
\* terminates and stale_calls count the traci.simulationStep calls that
\* returned, the generators created, the traci.close calls that returned, the
\* terminate calls, and the traci calls made on a connection already closed;
\* ended tells whether a get_frame_data call has returned success = False
RunnerIdle ==
    [sumocfg |-> TRUE, connected |-> FALSE, traci |-> "none", sumo_process |-> "none",
     simulation_generator |-> "none", index |-> 0, current_timestep |-> 0,
     simulation_steps |-> 0, generators |-> 0, closes |-> 0, terminates |-> 0,
     stale_calls |-> 0, ended |-> FALSE]

\* EnhancedTracker.__init__
Init ==
    /\ use_sumo_matching \in BOOLEAN
    /\ vehicle_history = <<>>
    /\ track_to_sumo_mapping = <<>>
    /\ frame_count = 0
    /\ appended = <<>>
    /\ last = NoCall
    /\ step_length = DefaultStepLength
    /\ world_bbox = DefaultWorldBbox
    /\ computed = FALSE
    /\ step = 0
    /\ is_running = FALSE
    /\ run = RunIdle
    /\ sumo_runner = RunnerIdle

\* EnhancedTracker.update on the tracks the tracker emits for this step
UpdateWith(byte_tracks, sumo_vehicles, dist) ==
    LET fc == frame_count + 1
        r  == EnhanceLoop(byte_tracks, 1, sumo_vehicles, track_to_sumo_mapping,
                          vehicle_history, fc, use_sumo_matching, dist, <<>>, {})
    IN  /\ frame_count' = fc
        /\ track_to_sumo_mapping' = r.mapping
        /\ vehicle_history' = update_vehicle_history(vehicle_history, r.enhanced_tracks, 1, fc)
        /\ appended' = RecordAppends(appended, r.enhanced_tracks, 1, fc)
        /\ last' = [NoCall EXCEPT !.op = "update",
                                  !.byte_tracks = byte_tracks,
                                  !.sumo_vehicles = sumo_vehicles,
                                  !.enhanced_tracks = r.enhanced_tracks,
                                  !.mapping_before = track_to_sumo_mapping,
                                  !.history_before = vehicle_history,
                                  !.searched = r.searched]
        /\ UNCHANGED use_sumo_matching
        /\ UNCHANGED pipelineVars

\* update with any tracker output, any telemetry and any drawn distances
Update ==
    /\ frame_count < MaxFrames
    /\ \E byte_tracks \in TrackLists, sumo_vehicles \in VehicleLists :
         \E dist \in DistTables(byte_tracks, sumo_vehicles, track_to_sumo_mapping,
                                 use_sumo_matching) :
            UpdateWith(byte_tracks, sumo_vehicles, dist)

\* mutant of GetV2xRelevantTracks: looking up the observer gives it a key
GetV2xRelevantTracks_Registering ==
    \E ego_track_id \in QueryIds, max_distance \in RangeValues :
        /\ last' = [NoCall EXCEPT !.op = "get_v2x_relevant_tracks",
                                  !.track_id = ego_track_id,
                                  !.arg = max_distance,
                                  !.tracks = get_v2x_relevant_tracks(vehicle_history,
                                                 ego_track_id, max_distance)]
        /\ vehicle_history' =
              [k \in DOMAIN vehicle_history \cup {ego_track_id} |->
                  IF k \in DOMAIN vehicle_history THEN vehicle_history[k] ELSE <<>>]
        /\ UNCHANGED <<use_sumo_matching, track_to_sumo_mapping, frame_count, appended>>
        /\ UNCHANGED pipelineVars

\* a get_v2x_relevant_tracks call
GetV2xRelevantTracks ==
    \E ego_track_id \in QueryIds, max_distance \in RangeValues :
        /\ last' = [NoCall EXCEPT !.op = "get_v2x_relevant_tracks",
                                  !.track_id = ego_track_id,
                                  !.arg = max_distance,
                                  !.tracks = get_v2x_relevant_tracks(vehicle_history,
                                                 ego_track_id, max_distance)]
        /\ UNCHANGED trackerVars
        /\ UNCHANGED pipelineVars

\* a predict_vehicle_position call
PredictVehiclePosition ==
    \E track_id \in QueryIds \ {0}, time_ahead \in Horizons :
        /\ last' = [NoCall EXCEPT !.op = "predict_vehicle_position",
                                  !.track_id = track_id,
                                  !.arg = time_ahead,
                                  !.prediction = predict_vehicle_position(vehicle_history,
                                                     track_id, time_ahead)]
        /\ UNCHANGED trackerVars
        /\ UNCHANGED pipelineVars

Next == Update \/ GetV2xRelevantTracks \/ PredictVehiclePosition

Spec == Init /\ [][Next]_vars

----------------------------------------------------------------------------
(* The long run: a few steps with any input, then a scene that holds still   *)
(* except for vehicle "a", which alternates between its two poses            *)

\* the first steps of the long run: any tracker output, telemetry and draws
UpdateEarly ==
    /\ frame_count < LongBranchFrames
    /\ \E byte_tracks \in TrackLists, sumo_vehicles \in VehicleLists :
         \E dist \in DistTables(byte_tracks, sumo_vehicles, track_to_sumo_mapping,
                                 use_sumo_matching) :
            UpdateWith(byte_tracks, sumo_vehicles, dist)

SteadyTracks == <<Track(1), Track(2)>>

SteadyVehicles(fc) ==
    <<Vehicle("a", IF fc % 2 = 0 THEN NearPose ELSE FarPose), Vehicle("b", FarPose)>>

\* every draw of a steady step is the smallest value
SteadyDist(byte_tracks, sumo_vehicles) ==
    [ij \in (1..Len(byte_tracks)) \X (1..Len(sumo_vehicles)) |->
        CHOOSE d \in DistValues : \A e \in DistValues : d <= e]

\* the later steps of the long run
UpdateSteady ==
    /\ frame_count >= LongBranchFrames
    /\ frame_count < MaxLongFrames
    /\ UpdateWith(SteadyTracks, SteadyVehicles(frame_count),
                  SteadyDist(SteadyTracks, SteadyVehicles(frame_count)))

NextLong == UpdateEarly \/ UpdateSteady

SpecLong == Init /\ [][NextLong]_vars

----------------------------------------------------------------------------
(* The long run with trajectory reads *)

\* num_points arguments of get_vehicle_trajectory: none, and counts below, at
\* and above the length of a history of one or two entries
NumPoints == {0, 1, 2}

\* track_id arguments of get_vehicle_trajectory: a track the tracker emits and
\* an id it never emits
TrajectoryIds == {1, 3}

\* what a get_vehicle_trajectory call leaves in `last`; earlier holds the
\* result of the call just before it when that was the same call with no
\* update in between
TrajectoryCall(track_id, num_points, trajectory) ==
    [NoCall EXCEPT !.op = "get_vehicle_trajectory",
                   !.track_id = track_id,
                   !.arg = num_points,
                   !.trajectory = trajectory,
                   !.earlier = IF /\ last.op = "get_vehicle_trajectory"
                                  /\ last.track_id = track_id
                                  /\ last.arg = num_points
                               THEN <<last.trajectory>>
                               ELSE <<>>]

\* mutant of GetVehicleTrajectory: the entries returned are removed from the
\* history
GetVehicleTrajectory_Consuming ==
    \E track_id \in TrajectoryIds, num_points \in NumPoints :
        LET trajectory == get_vehicle_trajectory(vehicle_history, track_id, num_points)
        IN  /\ last' = TrajectoryCall(track_id, num_points, trajectory)
            /\ vehicle_history' =
                  [k \in DOMAIN vehicle_history |->
                      IF k = track_id
                      THEN SubSeq(vehicle_history[k], 1,
                                  Len(vehicle_history[k]) - Len(trajectory))
                      ELSE vehicle_history[k]]
            /\ UNCHANGED <<use_sumo_matching, track_to_sumo_mapping, frame_count, appended>>
            /\ UNCHANGED pipelineVars

\* a get_vehicle_trajectory call
GetVehicleTrajectory ==
    \E track_id \in TrajectoryIds, num_points \in NumPoints :
        /\ last' = TrajectoryCall(track_id, num_points,
                       get_vehicle_trajectory(vehicle_history, track_id, num_points))
        /\ UNCHANGED trackerVars
        /\ UNCHANGED pipelineVars

NextTrajectory == UpdateEarly \/ UpdateSteady \/ GetVehicleTrajectory

SpecTrajectory == Init /\ [][NextTrajectory]_vars

----------------------------------------------------------------------------
(* The short run with every query: tracks come and go, vehicle "a" is seen  *)
(* in either pose or not at all, and any query is called between the steps  *)

\* steps of the short run
MaxQueryFrames == 3

\* tracker outputs of the short run: track 1 alone, with track 2, or nothing
SceneTrackLists == { <<>>, <<Track(1)>>, <<Track(1), Track(2)>> }

\* telemetry of the short run
SceneVehicleLists == { <<>>, <<Vehicle("a", NearPose)>>, <<Vehicle("a", FarPose)>> }

\* a step of the short run; every draw is the smallest value
UpdateScene ==
    /\ frame_count < MaxQueryFrames
    /\ \E byte_tracks \in SceneTrackLists, sumo_vehicles \in SceneVehicleLists :
          UpdateWith(byte_tracks, sumo_vehicles, SteadyDist(byte_tracks, sumo_vehicles))

NextQueries ==
    UpdateScene \/ GetV2xRelevantTracks \/ PredictVehiclePosition \/ GetVehicleTrajectory

SpecQueries == Init /\ [][NextQueries]_vars

----------------------------------------------------------------------------

(* The classifier on its own *)

\* class ids: the six named classes and one with no name
ClassIds == {0, 1, 2, 3, 4, 5, 9}

\* speeds in tenths of a metre per second, on and around both thresholds
ClassifierSpeeds == {-10, 0, 4, 5, 6, 100, 149, 150, 151, 200}

\* the modules as constructed, and the arguments of one classifier call
InitClassify ==
    /\ use_sumo_matching \in BOOLEAN
    /\ vehicle_history = <<>>
    /\ track_to_sumo_mapping = <<>>
    /\ frame_count = 0
    /\ appended = <<>>
    /\ \E class_id \in ClassIds, speed \in ClassifierSpeeds :
          last = [NoCall EXCEPT !.op = "input", !.class_id = class_id, !.speed = speed]
    /\ step_length = DefaultStepLength
    /\ world_bbox = DefaultWorldBbox
    /\ computed = FALSE
    /\ step = 0
    /\ is_running = FALSE
    /\ run = RunIdle
    /\ sumo_runner = RunnerIdle

\* the _classify_v2x_message_type call on the arguments drawn
Classify ==
    /\ last.op = "input"
    /\ last' = [last EXCEPT !.op = "classify_v2x_message_type",
                            !.v2x_type = classify_v2x_message_type(last.class_id, last.speed)]
    /\ UNCHANGED trackerVars
    /\ UNCHANGED pipelineVars

SpecClassify == InitClassify /\ [][Classify]_vars

----------------------------------------------------------------------------
(* The tracker followed by the output module *)

\* timestep arguments of to_json
Timesteps == {0, 7}

\* ego_vehicle_id arguments of create_v2x_broadcast: 0 is a falsy id (None),
\* 3 is the id of no track
ObserverIds == {0, 1, 2, 3}

\* whether `last` holds a list of fused tracks: update returned it, or it was
\* passed on to the output module
HoldsFusedTracks == last.op \in {"update", "to_json", "create_v2x_broadcast"}

\* a to_json call on the tracks update returned
ToJson ==
    /\ HoldsFusedTracks
    /\ \E timestep \in Timesteps, include_v2x_data \in BOOLEAN :
          last' = [NoCall EXCEPT !.op = "to_json",
                                 !.enhanced_tracks = last.enhanced_tracks,
                                 !.arg = timestep,
                                 !.include_v2x_data = include_v2x_data,
                                 !.message = <<to_json(last.enhanced_tracks, timestep,
                                                       include_v2x_data)>>]
    /\ UNCHANGED trackerVars
    /\ UNCHANGED pipelineVars

\* a create_v2x_broadcast call on the tracks update returned
CreateV2xBroadcast ==
    /\ HoldsFusedTracks
    /\ \E ego_vehicle_id \in ObserverIds :
          last' = [NoCall EXCEPT !.op = "create_v2x_broadcast",
                                 !.enhanced_tracks = last.enhanced_tracks,
                                 !.track_id = ego_vehicle_id,
                                 !.message = <<create_v2x_broadcast(last.enhanced_tracks,
                                                                    ego_vehicle_id)>>]
    /\ UNCHANGED trackerVars
    /\ UNCHANGED pipelineVars

NextOutput == Update \/ ToJson \/ CreateV2xBroadcast

SpecOutput == Init /\ [][NextOutput]_vars

----------------------------------------------------------------------------
(* One update, statement by statement.  last.op = "updating" while a call  *)
(* of update is in progress: last.enhanced_tracks holds the tracks fused   *)
(* so far and last.arg the number of tracks update_vehicle_history has     *)
(* recorded.  A KeyboardInterrupt can end the call between any two         *)
(* iterations; nothing in the tracker catches it.                          *)

\* update up to the loop over byte_tracks: the frame counter is incremented
\* and the tracker emits its tracks
BeginUpdate ==
    /\ last.op \notin {"updating", "abandoned"}
    /\ frame_count < MaxFrames
    /\ \E byte_tracks \in TrackLists, sumo_vehicles \in VehicleLists :
          last' = [NoCall EXCEPT !.op = "updating",
                                 !.byte_tracks = byte_tracks,
                                 !.sumo_vehicles = sumo_vehicles,
                                 !.mapping_before = track_to_sumo_mapping,
                                 !.history_before = vehicle_history]
    /\ frame_count' = frame_count + 1
    /\ UNCHANGED <<use_sumo_matching, vehicle_history, track_to_sumo_mapping, appended>>
    /\ UNCHANGED pipelineVars

\* one iteration of "for track in byte_tracks": enhance_track_with_sumo, which
\* writes track_to_sumo_mapping, and the append to enhanced_tracks
FuseNextTrack ==
    /\ last.op = "updating"
    /\ Len(last.enhanced_tracks) < Len(last.byte_tracks)
    /\ LET track == last.byte_tracks[Len(last.enhanced_tracks) + 1]
       IN  \E dist \in DistTables(<<track>>, last.sumo_vehicles, track_to_sumo_mapping,
                                   use_sumo_matching) :
              LET e == enhance_track_with_sumo(track, last.sumo_vehicles,
                           track_to_sumo_mapping, vehicle_history, frame_count,
                           use_sumo_matching, DrawsFor(dist, 1, last.sumo_vehicles))
              IN  /\ track_to_sumo_mapping' = e.mapping
                  /\ last' = [last EXCEPT
                                 !.enhanced_tracks = Append(@, e.track),
                                 !.searched = IF e.searched THEN @ \cup {track.track_id}
                                              ELSE @]
    /\ UNCHANGED <<use_sumo_matching, vehicle_history, frame_count, appended>>
    /\ UNCHANGED pipelineVars

\* one iteration of the loop of update_vehicle_history, which update calls
\* when every track is fused
RecordNextTrack ==
    /\ last.op = "updating"
    /\ Len(last.enhanced_tracks) = Len(last.byte_tracks)
    /\ last.arg < Len(last.enhanced_tracks)
    /\ LET track == last.enhanced_tracks[last.arg + 1]
       IN  /\ vehicle_history' = AppendHistory(vehicle_history, track, frame_count)
           /\ appended' = RecordAppends(appended, <<track>>, 1, frame_count)
    /\ last' = [last EXCEPT !.arg = @ + 1]
    /\ UNCHANGED <<use_sumo_matching, track_to_sumo_mapping, frame_count>>
    /\ UNCHANGED pipelineVars

\* "return enhanced_tracks"
ReturnFromUpdate ==
    /\ last.op = "updating"
    /\ Len(last.enhanced_tracks) = Len(last.byte_tracks)
    /\ last.arg = Len(last.enhanced_tracks)
    /\ last' = [last EXCEPT !.op = "update", !.arg = 0]
    /\ UNCHANGED trackerVars
    /\ UNCHANGED pipelineVars

\* a KeyboardInterrupt during update: the call ends where it is and
\* run_v2x_pipeline leaves its loop
AbandonUpdate ==
    /\ last.op = "updating"
    /\ last' = [last EXCEPT !.op = "abandoned"]
    /\ UNCHANGED trackerVars
    /\ UNCHANGED pipelineVars

NextStepwise ==
    BeginUpdate \/ FuseNextTrack \/ RecordNextTrack \/ ReturnFromUpdate \/ AbandonUpdate

SpecStepwise == Init /\ [][NextStepwise]_vars

----------------------------------------------------------------------------

(* Runs under any configuration *)

\* values of config['step_length'], in tenths of a second
StepLengths == {1, 2}

\* values of config['world_bbox']: None, the box of Scenario A, and two boxes
\* with xmax = xmin and with ymax = ymin
BboxConfigs == { <<>>, WorldBbox, <<0, 0, 0, 100>>, <<0, 0, 100, 0>> }

\* run_v2x_pipeline: the modules constructed from any configuration
InitConfigured ==
    /\ use_sumo_matching \in BOOLEAN
    /\ vehicle_history = <<>>
    /\ track_to_sumo_mapping = <<>>
    /\ frame_count = 0
    /\ appended = <<>>
    /\ last = NoCall
    /\ step_length \in StepLengths
    /\ world_bbox \in BboxConfigs
    /\ computed = FALSE
    /\ step = 0
    /\ is_running = FALSE
    /\ run = RunIdle
    /\ sumo_runner = RunnerIdle

\* the long run of the tracker under any configuration
SpecConfigured == InitConfigured /\ [][NextLong]_vars

----------------------------------------------------------------------------
(* The input module under any configuration *)

\* number of get_frame_data calls explored
MaxSteps == 2

\* where a vehicle of a batch can be: the point of Scenario A, a second point
\* inside the box of Scenario A, and a point outside it
BatchPoints == { <<50, 50>>, <<10, 90>>, <<110, -10>> }

BatchVehicle(id, p) == [id |-> id, x |-> p[1], y |-> p[2], speed |-> 0, angle |-> 0]

\* telemetry batches of the stepper: no vehicle, vehicle a, vehicles a and b
BatchLists ==
    { <<>> }
    \cup { <<BatchVehicle("a", p)>> : p \in BatchPoints }
    \cup { <<BatchVehicle("a", p), BatchVehicle("b", q)>> : p \in BatchPoints, q \in BatchPoints }

\* SumoInputModule.get_frame_data on the next batch of the stepper; an
\* exception leaves run_v2x_pipeline, so no call follows one
GetFrameData ==
    /\ last.error = ""
    /\ step < MaxSteps
    /\ \E vehicles \in BatchLists :
          LET r == FrameData(vehicles, world_bbox)
          IN  /\ world_bbox' = r.world_bbox
              /\ computed' = (computed \/ r.computed_now)
              /\ step' = step + 1
              /\ last' = [NoCall EXCEPT !.op = "get_frame_data",
                                        !.sumo_vehicles = vehicles,
                                        !.bbox_before = world_bbox,
                                        !.pixels = r.pixels,
                                        !.detections = r.detections,
                                        !.error = r.error]
    /\ is_running' = TRUE
    /\ UNCHANGED trackerVars
    /\ UNCHANGED <<step_length, run, sumo_runner>>

\* SumoDetectionModule.detect_from_sumo_data on a batch, with the converter
\* of the input module once a get_frame_data call has left it a box; the
\* converter divides by the extent of its box as in get_frame_data
DetectFromSumoData ==
    /\ last.error = ""
    /\ step > 0
    /\ \E vehicles \in BatchLists :
          LET fails == vehicles # <<>> /\ Degenerate(world_bbox)
          IN  last' = [NoCall EXCEPT
                          !.op = "detect_from_sumo_data",
                          !.sumo_vehicles = vehicles,
                          !.bbox_before = world_bbox,
                          !.detections = IF fails THEN <<>>
                                         ELSE detect_from_sumo_data(vehicles, world_bbox),
                          !.error = IF fails THEN "ZeroDivisionError" ELSE ""]
    /\ UNCHANGED trackerVars
    /\ UNCHANGED pipelineVars

NextMapper == GetFrameData \/ DetectFromSumoData

SpecMapper == InitConfigured /\ [][NextMapper]_vars

----------------------------------------------------------------------------
(* The stepper and the input module on their own: SumoRunner.run resumed by *)
(* SumoInputModule.get_frame_data and closed by release.  traci.init is     *)
(* taken to connect; a traci call on a connection that is open can raise,   *)
(* and a traci call on a connection already closed raises FatalTraCIError.  *)
(* The caller may catch an exception and call again.                        *)

\* generators created in one run of the model
MaxGenerators == 2

\* SumoRunner.start
start(r) ==
    [r EXCEPT !.sumo_process = IF r.sumocfg THEN "running" ELSE @,
              !.traci = "open",
              !.connected = TRUE]

\* mutant of RunFinally: the connection is closed and the subprocess is left
\* running
RunFinally_CloseOnly(r) ==
    IF r.traci = "open"
    THEN [runner |-> [r EXCEPT !.traci = "closed", !.closes = @ + 1,
                               !.simulation_generator = "finished"],
          error  |-> ""]
    ELSE [runner |-> [r EXCEPT !.stale_calls = @ + 1,
                               !.simulation_generator = "finished"],
          error  |-> "FatalTraCIError"]

\* the finally block of run: "traci.close(); if self.sumo_process:
\* self.sumo_process.terminate()"; terminate is not reached when close raises
RunFinally(r) ==
    IF r.traci = "open"
    THEN [runner |-> [r EXCEPT !.traci = "closed", !.closes = @ + 1,
                               !.sumo_process = IF @ = "none" THEN @ ELSE "terminated",
                               !.terminates = IF r.sumo_process = "none" THEN @ ELSE @ + 1,
                               !.simulation_generator = "finished"],
          error  |-> ""]
    ELSE [runner |-> [r EXCEPT !.stale_calls = @ + 1,
                               !.simulation_generator = "finished"],
          error  |-> "FatalTraCIError"]

\* what a resumed generator can meet: the next batch, the end of the
\* simulation (min expected number <= 0), an exception of
\* traci.simulationStep, an exception of a vehicle query after the step
StepperOutcomes == {"yield", "end", "step_raises", "query_raises"}

\* one pass of "while True" up to the yield
Iterate(r, outcome) ==
    IF r.traci # "open"
    THEN [runner |-> RunFinally([r EXCEPT !.stale_calls = @ + 1]).runner,
          result |-> "FatalTraCIError"]
    ELSE IF outcome = "step_raises"
    THEN LET f == RunFinally(r)
         IN  [runner |-> f.runner,
              result |-> IF f.error # "" THEN f.error ELSE "TraCIException"]
    ELSE IF outcome = "query_raises"
    THEN LET f == RunFinally([r EXCEPT !.simulation_steps = @ + 1])
         IN  [runner |-> f.runner,
              result |-> IF f.error # "" THEN f.error ELSE "TraCIException"]
    ELSE [runner |-> [r EXCEPT !.simulation_steps = @ + 1,
                               !.simulation_generator = "suspended"],
          result |-> "yield"]

\* next() on the generator of SumoRunner.run: the runner afterwards and what
\* the caller gets (a yield, StopIteration, or the exception raised)
run_next(r, outcome) ==
    IF r.simulation_generator = "created"
    THEN Iterate([(IF r.connected THEN r ELSE start(r)) EXCEPT !.index = 0], outcome)
    ELSE IF r.simulation_generator = "suspended"
    THEN LET resumed == [r EXCEPT !.index = @ + 1]
         IN  IF outcome = "end"
             THEN LET f == RunFinally(resumed)
                  IN  [runner |-> f.runner,
                       result |-> IF f.error # "" THEN f.error ELSE "StopIteration"]
             ELSE Iterate(resumed, outcome)
    ELSE [runner |-> r, result |-> "StopIteration"]

\* generator.close(): GeneratorExit is raised at the yield of a suspended
\* generator, so its finally block runs; a generator never resumed just ends
run_close(r) ==
    IF r.simulation_generator = "suspended" THEN RunFinally(r).runner
    ELSE IF r.simulation_generator = "created"
    THEN [r EXCEPT !.simulation_generator = "finished"]
    ELSE r

\* "self.simulation_generator = self.sumo_runner.run()"
NewGenerator(r) ==
    [r EXCEPT !.simulation_generator = "created", !.generators = @ + 1]

\* SumoInputModule.start, when it is not running
Start ==
    /\ ~is_running
    /\ sumo_runner.generators < MaxGenerators
    /\ sumo_runner' = NewGenerator(sumo_runner)
    /\ is_running' = TRUE
    /\ last' = [NoCall EXCEPT !.op = "start"]
    /\ UNCHANGED trackerVars
    /\ UNCHANGED <<step_length, world_bbox, computed, step, run>>

\* SumoInputModule.get_frame_data on the stepper: start() when not running,
\* next() on the generator, then the conversion of the batch; last.arg is the
\* 'timestep' of the result
GetFrameDataFromStepper ==
    /\ ~is_running => sumo_runner.generators < MaxGenerators
    /\ \E outcome \in StepperOutcomes, vehicles \in BatchLists :
          LET started == IF is_running THEN sumo_runner ELSE NewGenerator(sumo_runner)
              n       == run_next(started, outcome)
              r       == FrameData(vehicles, world_bbox)
          IN  /\ outcome = "end" => started.simulation_generator = "suspended"
              /\ n.result = "yield" => step < MaxSteps
              /\ IF n.result = "yield"
                 THEN /\ sumo_runner' = [n.runner EXCEPT !.current_timestep = n.runner.index]
                      /\ is_running' = TRUE
                      /\ world_bbox' = r.world_bbox
                      /\ computed' = (computed \/ r.computed_now)
                      /\ step' = step + 1
                      /\ last' = [NoCall EXCEPT !.op = "get_frame_data",
                                                !.arg = n.runner.index,
                                                !.sumo_vehicles = vehicles,
                                                !.bbox_before = world_bbox,
                                                !.pixels = r.pixels,
                                                !.detections = r.detections,
                                                !.error = r.error]
                 ELSE IF n.result = "StopIteration"
                 THEN /\ sumo_runner' = [n.runner EXCEPT !.ended = TRUE]
                      /\ is_running' = FALSE
                      /\ last' = [NoCall EXCEPT !.op = "get_frame_data",
                                                !.arg = sumo_runner.current_timestep,
                                                !.success = FALSE]
                      /\ UNCHANGED <<world_bbox, computed, step>>
                 ELSE /\ sumo_runner' = n.runner
                      /\ is_running' = TRUE
                      /\ last' = [NoCall EXCEPT !.op = "get_frame_data",
                                                !.error = n.result]
                      /\ UNCHANGED <<world_bbox, computed, step>>
    /\ UNCHANGED trackerVars
    /\ UNCHANGED <<step_length, run>>

\* SumoInputModule.release; the bare except swallows what close raises
Release ==
    /\ sumo_runner' = IF is_running THEN run_close(sumo_runner) ELSE sumo_runner
    /\ is_running' = FALSE
    /\ last' = [NoCall EXCEPT !.op = "release"]
    /\ UNCHANGED trackerVars
    /\ UNCHANGED <<step_length, world_bbox, computed, step, run>>

\* SumoInputModule.__init__ with or without a sumocfg, the box supplied or not
InitStepper ==
    /\ use_sumo_matching = TRUE
    /\ vehicle_history = <<>>
    /\ track_to_sumo_mapping = <<>>
    /\ frame_count = 0
    /\ appended = <<>>
    /\ last = NoCall
    /\ step_length = DefaultStepLength
    /\ world_bbox \in { DefaultWorldBbox, WorldBbox }
    /\ computed = FALSE
    /\ step = 0
    /\ is_running = FALSE
    /\ run = RunIdle
    /\ sumo_runner \in { [RunnerIdle EXCEPT !.sumocfg = c] : c \in BOOLEAN }

NextStepper == Start \/ GetFrameDataFromStepper \/ Release

SpecStepper == InitStepper /\ [][NextStepper]_vars

----------------------------------------------------------------------------

(* The run loops: run_v2x_pipeline (main_v2x_sumo.py) and                  *)
(* SumoV2XPipeline.run (perception/pipeline.py).  The stepper yields a     *)
(* scene that holds still except for vehicle "a", and the tracker emits    *)
(* the same two tracks at every frame.  Leaving the loop and the finally   *)
(* block that follows are one step: nothing runs between them.  A          *)
(* KeyboardInterrupt can arrive between any two calls of the loop body;    *)
(* one that arrives inside tracker.update is the subject of SpecStepwise.  *)
(* `appended` is kept by the tracker specifications only.                  *)

\* frames explored of a SumoV2XPipeline.run without a frame limit
MaxPipelineFrames == 4

\* configurations of run_v2x_pipeline: visualization on or off (--no-viz)
\* with a broadcast interval of 1, 3 or the default 5, and under the default
\* interval the step lengths 0.2, 0 and -0.1
MainConfigs ==
    { [step_length |-> DefaultStepLength, show_visualization |-> v,
       broadcast_interval |-> b, max_frames |-> 0] :
         v \in BOOLEAN, b \in {1, 3, DefaultBroadcastInterval} }
    \cup { [step_length |-> s, show_visualization |-> TRUE,
            broadcast_interval |-> DefaultBroadcastInterval, max_frames |-> 0] :
              s \in {2, 0, -1} }

\* configurations of SumoV2XPipeline and arguments of run: max_frames = None
\* (0 here, which Python tests the same way) or a limit
PipelineConfigs ==
    { [step_length |-> DefaultStepLength, show_visualization |-> v,
       broadcast_interval |-> b, max_frames |-> n] :
         v \in BOOLEAN, b \in {1, 2}, n \in 0..3 }

\* the modules before either pipeline is constructed
InitPipeline ==
    /\ use_sumo_matching = TRUE
    /\ vehicle_history = <<>>
    /\ track_to_sumo_mapping = <<>>
    /\ frame_count = 0
    /\ appended = <<>>
    /\ last = NoCall
    /\ world_bbox = DefaultWorldBbox
    /\ computed = FALSE
    /\ step = 0
    /\ is_running = FALSE
    /\ sumo_runner = RunnerIdle
    /\ \E c \in MainConfigs :
          /\ step_length = c.step_length
          /\ run = [RunIdle EXCEPT !.program = "run_v2x_pipeline", !.pc = "config",
                                   !.show_visualization = c.show_visualization,
                                   !.broadcast_interval = c.broadcast_interval]

\* the same for SumoV2XPipeline
InitSumoV2XPipeline ==
    /\ use_sumo_matching = TRUE
    /\ vehicle_history = <<>>
    /\ track_to_sumo_mapping = <<>>
    /\ frame_count = 0
    /\ appended = <<>>
    /\ last = NoCall
    /\ world_bbox = DefaultWorldBbox
    /\ computed = FALSE
    /\ step = 0
    /\ is_running = FALSE
    /\ sumo_runner = RunnerIdle
    /\ \E c \in PipelineConfigs :
          /\ step_length = c.step_length
          /\ run = [RunIdle EXCEPT !.program = "SumoV2XPipeline", !.pc = "config",
                                   !.show_visualization = c.show_visualization,
                                   !.broadcast_interval = c.broadcast_interval,
                                   !.max_frames = c.max_frames]

\* the batches the stepper can yield at its n-th call: the first may hold no
\* vehicle yet
LoopBatches(n) == IF n = 0 THEN { <<>>, SteadyVehicles(0) } ELSE { SteadyVehicles(n) }

\* SumoRunner.run ends (StopIteration) only when resumed after a yield, so
\* never at the first call
CanBeExhausted(pulls) == pulls > 0

\* mutant of BroadcastDue: the first broadcast comes after a full interval
BroadcastDue_AfterInterval(count, interval) == (count + 1) % interval = 0

\* "if frame_count % config['broadcast_interval'] == 0"
BroadcastDue(count, interval) == count % interval = 0

\* mutant of FinallyMain: the windows are closed before the input is released
FinallyMain_WindowsFirst(r, reason, error) ==
    [r EXCEPT !.pc = "done", !.exit = reason,
              !.released = r.cv2,
              !.outcome = IF ~r.cv2 THEN "UnboundLocalError"
                          ELSE IF error # "" THEN error ELSE "returned"]

\* the finally block of run_v2x_pipeline, entered by the way `reason` with
\* the exception `error` pending ("" for none): input_module.release(), then
\* cv2.destroyAllWindows().  cv2 is a local name of run_v2x_pipeline (it is
\* imported inside the function, in the visualization branch), so the call
\* raises UnboundLocalError when that import has not run
FinallyMain(r, reason, error) ==
    [r EXCEPT !.pc = "done", !.exit = reason,
              !.released = TRUE,
              !.outcome = IF ~r.cv2 THEN "UnboundLocalError"
                          ELSE IF error # "" THEN error ELSE "returned"]

\* SumoInputModule.release: is_running after the finally block
AfterRelease(r, running) == IF r.released THEN FALSE ELSE running

\* run_v2x_pipeline up to the loop: the modules are constructed, the tracker
\* with frame_rate = int(1.0 / step_length), and the input module is started
ConstructMain ==
    /\ run.program = "run_v2x_pipeline"
    /\ run.pc = "config"
    /\ IF step_length = 0
       THEN /\ run' = [run EXCEPT !.pc = "done", !.outcome = "ZeroDivisionError"]
            /\ UNCHANGED is_running
       ELSE /\ run' = [run EXCEPT !.pc = "loop"]
            /\ is_running' = TRUE
    /\ UNCHANGED trackerVars
    /\ UNCHANGED <<last, step_length, world_bbox, computed, step, sumo_runner>>

\* the top of the loop: get_frame_data, and the break when it reports
\* success = False
PullMain ==
    /\ run.program = "run_v2x_pipeline"
    /\ run.pc = "loop"
    /\ \/ /\ CanBeExhausted(run.pulls)
          /\ run' = FinallyMain([run EXCEPT !.pulls = @ + 1], "exhausted", "")
          /\ is_running' = FALSE
          /\ last' = [NoCall EXCEPT !.op = "get_frame_data", !.success = FALSE,
                                    !.bbox_before = world_bbox]
          /\ UNCHANGED <<world_bbox, computed, step, sumo_runner>>
       \/ \E vehicles \in LoopBatches(run.pulls) :
             LET r == FrameData(vehicles, world_bbox)
             IN  /\ world_bbox' = r.world_bbox
                 /\ computed' = (computed \/ r.computed_now)
                 /\ step' = step + 1
                 /\ last' = [NoCall EXCEPT !.op = "get_frame_data",
                                           !.sumo_vehicles = vehicles,
                                           !.bbox_before = world_bbox,
                                           !.pixels = r.pixels,
                                           !.detections = r.detections,
                                           !.error = r.error]
                 /\ run' = IF r.error = ""
                           THEN [run EXCEPT !.pulls = @ + 1, !.pc = "pulled"]
                           ELSE FinallyMain([run EXCEPT !.pulls = @ + 1], "error", r.error)
                 /\ is_running' = AfterRelease(run', is_running)
    /\ UNCHANGED trackerVars
    /\ UNCHANGED <<step_length, sumo_runner>>

\* tracker.update(detections, frame, sumo_vehicles=vehicles)
TrackMain ==
    /\ run.program = "run_v2x_pipeline"
    /\ run.pc = "pulled"
    /\ LET fc == frame_count + 1
           sumo_vehicles == last.sumo_vehicles
           r  == EnhanceLoop(SteadyTracks, 1, sumo_vehicles, track_to_sumo_mapping,
                             vehicle_history, fc, use_sumo_matching,
                             SteadyDist(SteadyTracks, sumo_vehicles), <<>>, {})
       IN  /\ frame_count' = fc
           /\ track_to_sumo_mapping' = r.mapping
           /\ vehicle_history' = update_vehicle_history(vehicle_history, r.enhanced_tracks, 1, fc)
           /\ last' = [NoCall EXCEPT !.op = "update",
                                     !.byte_tracks = SteadyTracks,
                                     !.sumo_vehicles = sumo_vehicles,
                                     !.enhanced_tracks = r.enhanced_tracks,
                                     !.mapping_before = track_to_sumo_mapping,
                                     !.history_before = vehicle_history,
                                     !.searched = r.searched]
    /\ run' = [run EXCEPT !.pc = "tracked"]
    /\ UNCHANGED <<use_sumo_matching, appended>>
    /\ UNCHANGED <<step_length, world_bbox, computed, step, is_running, sumo_runner>>

\* the rest of the loop body: the broadcast when one is due, the display and
\* the key read when visualization is on ('q' leaves the loop), then
\* "frame_count += 1" and the frame limit
FinishMain ==
    /\ run.program = "run_v2x_pipeline"
    /\ run.pc = "tracked"
    /\ LET shown == [run EXCEPT
                        !.v2x_messages =
                            IF BroadcastDue(run.frame_count, run.broadcast_interval)
                            THEN Append(@, run.frame_count) ELSE @,
                        !.cv2 = @ \/ run.show_visualization,
                        !.processed = @ + 1]
           counted == [shown EXCEPT !.frame_count = @ + 1]
       IN  \/ /\ run.show_visualization
              /\ run' = FinallyMain(shown, "quit", "")
           \/ run' = IF counted.frame_count >= FrameLimit
                     THEN FinallyMain(counted, "limit", "")
                     ELSE [counted EXCEPT !.pc = "loop"]
    /\ is_running' = AfterRelease(run', is_running)
    /\ UNCHANGED trackerVars
    /\ UNCHANGED <<last, step_length, world_bbox, computed, step, sumo_runner>>

\* "except KeyboardInterrupt", wherever in the loop body it is raised
InterruptMain ==
    /\ run.program = "run_v2x_pipeline"
    /\ run.pc \in {"loop", "pulled", "tracked"}
    /\ run' = FinallyMain(run, "interrupt", "")
    /\ is_running' = AfterRelease(run', is_running)
    /\ UNCHANGED trackerVars
    /\ UNCHANGED <<last, step_length, world_bbox, computed, step, sumo_runner>>

NextMain == ConstructMain \/ PullMain \/ TrackMain \/ FinishMain \/ InterruptMain

\* SumoV2XPipeline.cleanup, called from the finally block of run:
\* is_running = False, input_module.release(), cv2.destroyAllWindows() (cv2 is
\* imported by the module); the frame count it prints is frame_count
cleanup(r, reason, error) ==
    [r EXCEPT !.pc = "done", !.exit = reason,
              !.running = FALSE,
              !.released = TRUE,
              !.outcome = IF error # "" THEN error ELSE "returned"]

\* "if max_frames and self.frame_count >= max_frames"
LimitReached(max_frames, count) == max_frames # 0 /\ count >= max_frames

\* SumoV2XPipeline.__init__ (the tracker with frame_rate = int(1.0 /
\* step_length)) and the first statements of run
ConstructSumoV2X ==
    /\ run.program = "SumoV2XPipeline"
    /\ run.pc = "config"
    /\ run' = IF step_length = 0
              THEN [run EXCEPT !.pc = "done", !.outcome = "ZeroDivisionError"]
              ELSE [run EXCEPT !.pc = "loop", !.running = TRUE, !.frame_count = 0]
    /\ UNCHANGED trackerVars
    /\ UNCHANGED <<last, step_length, world_bbox, computed, step, is_running, sumo_runner>>

\* the top of the loop of run: get_frame_data, which starts the input module
\* at its first call, and the break when it reports success = False
PullSumoV2X ==
    /\ run.program = "SumoV2XPipeline"
    /\ run.pc = "loop"
    /\ run.frame_count < MaxPipelineFrames
    /\ \/ /\ CanBeExhausted(run.pulls)
          /\ run' = cleanup([run EXCEPT !.pulls = @ + 1], "exhausted", "")
          /\ is_running' = FALSE
          /\ last' = [NoCall EXCEPT !.op = "get_frame_data", !.success = FALSE,
                                    !.bbox_before = world_bbox]
          /\ UNCHANGED <<world_bbox, computed, step, sumo_runner>>
       \/ \E vehicles \in LoopBatches(run.pulls) :
             LET r == FrameData(vehicles, world_bbox)
             IN  /\ world_bbox' = r.world_bbox
                 /\ computed' = (computed \/ r.computed_now)
                 /\ step' = step + 1
                 /\ last' = [NoCall EXCEPT !.op = "get_frame_data",
                                           !.sumo_vehicles = vehicles,
                                           !.bbox_before = world_bbox,
                                           !.pixels = r.pixels,
                                           !.detections = r.detections,
                                           !.error = r.error]
                 /\ run' = IF r.error = ""
                           THEN [run EXCEPT !.pulls = @ + 1, !.pc = "pulled"]
                           ELSE cleanup([run EXCEPT !.pulls = @ + 1], "error", r.error)
                 /\ is_running' = (r.error = "")
    /\ UNCHANGED trackerVars
    /\ UNCHANGED <<step_length, sumo_runner>>

\* process_frame and the rest of the loop body: the message when one is due,
\* the frame limit, the key read when visualization is on, and
\* "self.frame_count += 1".  The tracker of this pipeline is the class Tracker
\* of a module tracking_module, which is not EnhancedTracker: its update
\* leaves the state modelled here alone
ProcessFrameSumoV2X ==
    /\ run.program = "SumoV2XPipeline"
    /\ run.pc = "pulled"
    /\ LET processed == [run EXCEPT
                            !.v2x_messages =
                                IF BroadcastDue(run.frame_count, run.broadcast_interval)
                                THEN Append(@, run.frame_count) ELSE @,
                            !.processed = @ + 1]
       IN  IF LimitReached(run.max_frames, run.frame_count)
           THEN run' = cleanup(processed, "limit", "")
           ELSE \/ /\ run.show_visualization
                   /\ run' = cleanup(processed, "quit", "")
                \/ run' = [processed EXCEPT !.frame_count = @ + 1, !.pc = "loop"]
    /\ is_running' = AfterRelease(run', is_running)
    /\ UNCHANGED trackerVars
    /\ UNCHANGED <<last, step_length, world_bbox, computed, step, sumo_runner>>

\* "except KeyboardInterrupt" of run
InterruptSumoV2X ==
    /\ run.program = "SumoV2XPipeline"
    /\ run.pc \in {"loop", "pulled"}
    /\ run' = cleanup(run, "interrupt", "")
    /\ is_running' = FALSE
    /\ UNCHANGED trackerVars
    /\ UNCHANGED <<last, step_length, world_bbox, computed, step, sumo_runner>>

NextSumoV2X ==
    ConstructSumoV2X \/ PullSumoV2X \/ ProcessFrameSumoV2X \/ InterruptSumoV2X

NextPipeline == NextMain \/ NextSumoV2X

SpecPipeline == (InitPipeline \/ InitSumoV2XPipeline) /\ [][NextPipeline]_vars

----------------------------------------------------------------------------

(* Claims *)

Min(a, b) == IF a <= b THEN a ELSE b

\* the tracks of the last update, by position
LastIndices == 1..Len(last.enhanced_tracks)

\* C1: after any sequence of update calls, every history list of
\* vehicle_history has at most 30 entries.
C1_CapInvariant ==
    \A t \in DOMAIN vehicle_history : Len(vehicle_history[t]) <= HistoryCap

\* C1 witness: a track was appended to more than 30 times and its history
\* holds exactly 30 entries.
C1_Witness ==
    \E t \in DOMAIN vehicle_history :
        /\ Len(appended[t]) > HistoryCap
        /\ Len(vehicle_history[t]) = HistoryCap

\* C2: the history of a track is exactly the most recent min(30, n) entries
\* appended for it, in append order, n being the number of steps in which the
\* tracker emitted it; what is evicted is the oldest entry.
C2_FifoEviction ==
    /\ DOMAIN vehicle_history = DOMAIN appended
    /\ \A t \in DOMAIN vehicle_history :
          LET n == Len(appended[t])
          IN  /\ vehicle_history[t] = LastN(appended[t], Min(HistoryCap, n))
              /\ n > HistoryCap =>
                    vehicle_history[t][1] = appended[t][n - HistoryCap + 1]

\* C2 witness: the first entry of a track has been evicted, the track was not
\* emitted in every step, and the oldest entry kept is the second one appended.
C2_Witness ==
    \E t \in DOMAIN vehicle_history :
        /\ Len(appended[t]) = HistoryCap + 1
        /\ Len(appended[t]) < frame_count
        /\ vehicle_history[t][1] = appended[t][2]
        /\ vehicle_history[t][1] # appended[t][1]

\* whether the vehicle id is in the telemetry list
Listed(sumo_vehicles, id) == \E j \in 1..Len(sumo_vehicles) : sumo_vehicles[j].id = id

\* C3: if track t is mapped to vehicle v after a step and v is in the telemetry
\* list of the next step, then in that step t is matched to v again, whatever
\* v's position and the other candidates, and no proximity search runs for t.
C3_StickyPersistence ==
    last.op = "update" =>
        \A i \in LastIndices :
            LET t == last.byte_tracks[i].track_id
                e == last.enhanced_tracks[i]
            IN  (/\ t \in DOMAIN last.mapping_before
                 /\ Listed(last.sumo_vehicles, last.mapping_before[t]))
                => /\ e.has_sumo_data
                   /\ e.sumo_id = last.mapping_before[t]
                   /\ t \notin last.searched
                   /\ track_to_sumo_mapping[t] = last.mapping_before[t]

\* C3 witness: a track mapped to a vehicle before the step is matched to it
\* again although the vehicle has moved since the track's previous entry and
\* another vehicle is listed before it.
C3_Witness ==
    /\ last.op = "update"
    /\ \E i \in LastIndices :
          LET t == last.byte_tracks[i].track_id
              e == last.enhanced_tracks[i]
              h == vehicle_history[t]
          IN  /\ t \in DOMAIN last.mapping_before
              /\ Len(last.sumo_vehicles) = 2
              /\ last.sumo_vehicles[2].id = last.mapping_before[t]
              /\ e.sumo_id = last.mapping_before[t]
              /\ Len(h) >= 2
              /\ h[Len(h) - 1].world_position # NonePos
              /\ h[Len(h) - 1].world_position # e.world_position

\* C4 as claimed: in the fused output of a step no two tracks are matched to
\* the same vehicle id.
C4_MappingUniqueness ==
    last.op = "update" =>
        \A i, j \in LastIndices :
            (/\ i # j
             /\ last.enhanced_tracks[i].has_sumo_data
             /\ last.enhanced_tracks[j].has_sumo_data)
            => last.enhanced_tracks[i].sumo_id # last.enhanced_tracks[j].sumo_id

\* C4 as amended: every track matched in a step is matched to one vehicle, the
\* one track_to_sumo_mapping holds for it after the step (two tracks of a step
\* may be matched to the same vehicle).
C4_MappingPerTrack ==
    last.op = "update" =>
        \A i \in LastIndices :
            LET e == last.enhanced_tracks[i]
            IN  e.has_sumo_data =>
                  /\ e.track_id \in DOMAIN track_to_sumo_mapping
                  /\ track_to_sumo_mapping[e.track_id] = e.sumo_id
                  /\ e.sumo_id \in VehicleIds

\* C4 witness: two tracks of one step are matched to the same vehicle and the
\* mapping holds that vehicle for both.
C4_Witness ==
    /\ last.op = "update"
    /\ Len(last.enhanced_tracks) = 2
    /\ last.enhanced_tracks[1].has_sumo_data
    /\ last.enhanced_tracks[2].has_sumo_data
    /\ last.enhanced_tracks[1].sumo_id = last.enhanced_tracks[2].sumo_id
    /\ track_to_sumo_mapping[1] = track_to_sumo_mapping[2]

\* squared pixel distance between a track centre and a vehicle's projected
\* position under the coordinate mapper
PixelDistance2(track_center, vehicle) ==
    LET p == world_to_pixel(vehicle.x, vehicle.y, WorldBbox, ImageSize)
    IN  (track_center[1] - p[1]) * (track_center[1] - p[1])
        + (track_center[2] - p[2]) * (track_center[2] - p[2])

\* whether the vehicle is within the matcher's threshold of the centre
WithinThreshold(track_center, vehicle) ==
    PixelDistance2(track_center, vehicle) < MatchThreshold * MatchThreshold

\* the id the claimed matcher selects: the first-listed vehicle at minimal
\* distance among those within the threshold, NoneId when there is none
NearestId(track_center, sumo_vehicles) ==
    LET cand == { j \in 1..Len(sumo_vehicles) :
                    WithinThreshold(track_center, sumo_vehicles[j]) }
        best == { j \in cand : \A k \in cand :
                    /\ PixelDistance2(track_center, sumo_vehicles[j])
                         <= PixelDistance2(track_center, sumo_vehicles[k])
                    /\ (PixelDistance2(track_center, sumo_vehicles[j])
                         = PixelDistance2(track_center, sumo_vehicles[k]) => j <= k) }
    IN  IF cand = {} THEN NoneId ELSE sumo_vehicles[CHOOSE j \in best : TRUE].id

\* C5 as claimed: a track without a usable sticky mapping gets the first-listed
\* vehicle at minimal distance from its bbox centre among those below 50, and
\* no match when there is none.
C5_NearestCandidate ==
    last.op = "update" =>
        \A i \in LastIndices :
            last.byte_tracks[i].track_id \in last.searched =>
                last.enhanced_tracks[i].sumo_id
                    = NearestId(last.enhanced_tracks[i].center, last.sumo_vehicles)

\* C6 as claimed: a vehicle whose projected pixel position is 50 px or more
\* from the track's bbox centre is never selected by a fresh match.
C6_GeometricMatch ==
    last.op = "update" =>
        \A i \in LastIndices :
            (/\ last.byte_tracks[i].track_id \in last.searched
             /\ last.enhanced_tracks[i].has_sumo_data)
            => \E j \in 1..Len(last.sumo_vehicles) :
                  /\ last.sumo_vehicles[j].id = last.enhanced_tracks[i].sumo_id
                  /\ WithinThreshold(last.enhanced_tracks[i].center, last.sumo_vehicles[j])

\* C7: a fused track with has_sumo_data false has no vehicle id, no world
\* position and zero speed, angle, acceleration and direction vector; one with
\* has_sumo_data true carries the id, position, speed and angle of a vehicle of
\* the step's telemetry list.
C7_UnmatchedRepresentation ==
    last.op = "update" =>
        \A i \in LastIndices :
            LET e == last.enhanced_tracks[i]
            IN  /\ ~e.has_sumo_data =>
                      /\ e.sumo_id = NoneId
                      /\ e.world_position = NonePos
                      /\ e.speed = 0
                      /\ e.angle = 0
                      /\ e.acceleration = 0
                      /\ e.direction_vector = <<0, 0>>
                /\ e.has_sumo_data =>
                      \E j \in 1..Len(last.sumo_vehicles) :
                          LET v == last.sumo_vehicles[j]
                          IN  /\ e.sumo_id = v.id
                              /\ e.world_position = <<v.x, v.y>>
                              /\ e.speed = v.speed
                              /\ e.angle = v.angle

\* C7 witness: one step with telemetry fuses a matched and an unmatched track.
C7_Witness ==
    /\ last.op = "update"
    /\ last.sumo_vehicles # <<>>
    /\ \E i, j \in LastIndices :
          /\ last.enhanced_tracks[i].has_sumo_data
          /\ last.enhanced_tracks[i].speed > 0
          /\ ~last.enhanced_tracks[j].has_sumo_data

\* the latest history entry of a track with recorded history
Latest(t) == vehicle_history[t][Len(vehicle_history[t])]

\* whether the track id has recorded history
HasHistory(t) == t \in DOMAIN vehicle_history /\ vehicle_history[t] # <<>>

\* the world position of the last entry of the track that has one, NonePos if none has
RECURSIVE LatestKnownPositionFrom(_, _)
LatestKnownPositionFrom(h, k) ==
    IF k = 0 THEN NonePos
    ELSE IF h[k].world_position # NonePos THEN h[k].world_position
    ELSE LatestKnownPositionFrom(h, k - 1)

LatestKnownPosition(t) == LatestKnownPositionFrom(vehicle_history[t], Len(vehicle_history[t]))

\* squared Euclidean distance of two world positions
WorldDistance2(p, q) == (p[1] - q[1]) * (p[1] - q[1]) + (p[2] - q[2]) * (p[2] - q[2])

\* the other tracks whose latest entry has a world position within d of pos
OthersWithin(observer, pos, d) ==
    { t \in DOMAIN vehicle_history \ {observer} :
        /\ HasHistory(t)
        /\ Latest(t).world_position # NonePos
        /\ pos # NonePos
        /\ WorldDistance2(pos, Latest(t).world_position) <= d * d }

\* C8 as claimed: for every observer with recorded history the result is
\* exactly the other tracks whose latest entry has a known world position
\* within d of the observer's latest known world position; the observer and
\* tracks without a known world position are never in it.
C8_RangeFiltering ==
    (last.op = "get_v2x_relevant_tracks" /\ HasHistory(last.track_id)) =>
        /\ last.tracks = OthersWithin(last.track_id, LatestKnownPosition(last.track_id),
                                      last.arg)
        /\ last.track_id \notin last.tracks
        /\ \A t \in last.tracks : Latest(t).world_position # NonePos

\* C8 as amended: the filter applies when the observer's latest entry has a
\* known world position; when it has none the result is every track id of the
\* ledger, the observer included.
C8_RangeFilteringKnownObserver ==
    (last.op = "get_v2x_relevant_tracks" /\ HasHistory(last.track_id)) =>
        IF Latest(last.track_id).world_position # NonePos
        THEN /\ last.tracks = OthersWithin(last.track_id,
                                           Latest(last.track_id).world_position, last.arg)
             /\ last.track_id \notin last.tracks
             /\ \A t \in last.tracks : Latest(t).world_position # NonePos
        ELSE last.tracks = DOMAIN vehicle_history

\* C8 witness: the observer has a known position and the other track is
\* returned at a distance equal to the range.
C8_Witness ==
    /\ last.op = "get_v2x_relevant_tracks"
    /\ HasHistory(last.track_id)
    /\ Latest(last.track_id).world_position # NonePos
    /\ \E t \in last.tracks :
          WorldDistance2(Latest(last.track_id).world_position, Latest(t).world_position)
            = last.arg * last.arg

\* C9: for an observer id with no recorded history the result is every track
\* id of the ledger, without distance filtering.
C9_FailOpen ==
    (last.op = "get_v2x_relevant_tracks" /\ ~HasHistory(last.track_id)) =>
        last.tracks = DOMAIN vehicle_history

\* C9 witness: a never-tracked observer gets both tracks of the ledger, one of
\* which has no known world position.
C9_Witness ==
    /\ last.op = "get_v2x_relevant_tracks"
    /\ last.track_id \notin TrackIds
    /\ last.track_id # 0
    /\ last.tracks = TrackIds
    /\ \E t \in last.tracks : Latest(t).world_position = NonePos

\* C10: predict_vehicle_position returns a result exactly when the track has
\* at least two history entries and its latest entry has a known world
\* position; every result has confidence 0.8.
C10_PredictionPrecondition ==
    last.op = "predict_vehicle_position" =>
        /\ last.prediction # <<>>
             <=> /\ HasHistory(last.track_id)
                 /\ Len(vehicle_history[last.track_id]) >= 2
                 /\ Latest(last.track_id).world_position # NonePos
        /\ last.prediction # <<>> => last.prediction[1].confidence = ConfidenceTenths

\* C10 witness: a prediction is returned for a moving track with two entries.
C10_Witness ==
    /\ last.op = "predict_vehicle_position"
    /\ last.prediction # <<>>
    /\ Len(vehicle_history[last.track_id]) = 2
    /\ <<last.prediction[1].x, last.prediction[1].y>> # Latest(last.track_id).world_position

\* a track with exactly one entry, holding a known position, gets no prediction
C10_OneEntryCase ==
    /\ last.op = "predict_vehicle_position"
    /\ last.prediction = <<>>
    /\ HasHistory(last.track_id)
    /\ Len(vehicle_history[last.track_id]) = 1
    /\ Latest(last.track_id).world_position # NonePos

----------------------------------------------------------------------------
(* Claims on the estimator and the trajectory query *)

\* the history a track had when the last update was called
HistoryBefore(t) ==
    IF t \in DOMAIN last.history_before THEN last.history_before[t] ELSE <<>>

\* tenths of a second in a second: step_length is held in tenths
TenthsPerSecond == 10

\* C11: the acceleration of a matched track with at least two history entries
\* is (current_speed - speed of its most recent entry) / dt, dt being the
\* configured step length; with fewer than two entries it is 0.
C11_ConfiguredAcceleration ==
    last.op = "update" =>
        \A i \in LastIndices :
            LET e == last.enhanced_tracks[i]
                h == HistoryBefore(e.track_id)
            IN  e.has_sumo_data =>
                  IF Len(h) >= 2
                  THEN e.acceleration * step_length
                         = (e.speed - h[Len(h)].speed) * TenthsPerSecond
                  ELSE e.acceleration = 0

\* the same with dt = 0.1 s, whatever the configured step length
C11_DefaultStepAcceleration ==
    last.op = "update" =>
        \A i \in LastIndices :
            LET e == last.enhanced_tracks[i]
                h == HistoryBefore(e.track_id)
            IN  e.has_sumo_data =>
                  IF Len(h) >= 2
                  THEN e.acceleration = (e.speed - h[Len(h)].speed) * TenthsPerSecond
                  ELSE e.acceleration = 0

\* a matched track with two earlier entries whose speed changed, under a step
\* length other than the default
C11_ChangedSpeedCase ==
    /\ last.op = "update"
    /\ step_length # DefaultStepLength
    /\ \E i \in LastIndices :
          LET e == last.enhanced_tracks[i]
              h == HistoryBefore(e.track_id)
          IN  /\ e.has_sumo_data
              /\ Len(h) >= 2
              /\ e.speed # h[Len(h)].speed

\* C12: get_vehicle_trajectory(track, n) returns the last min(n, len(history))
\* entries of the track's history, in order, for every n >= 0, and an empty
\* sequence for an unknown track id.
C12_TrajectoryLength ==
    last.op = "get_vehicle_trajectory" =>
        IF last.track_id \in DOMAIN vehicle_history
        THEN LET h == vehicle_history[last.track_id]
             IN  /\ last.trajectory = LastN(h, Min(last.arg, Len(h)))
                 /\ Len(last.trajectory) <= last.arg
        ELSE last.trajectory = <<>>

\* the same for n >= 1 only
C12_PositiveCount ==
    (last.op = "get_vehicle_trajectory" /\ last.arg >= 1) =>
        IF last.track_id \in DOMAIN vehicle_history
        THEN LET h == vehicle_history[last.track_id]
             IN  /\ last.trajectory = LastN(h, Min(last.arg, Len(h)))
                 /\ Len(last.trajectory) <= last.arg
        ELSE last.trajectory = <<>>

\* a read with n = 0 of a track that has a history
C12_ZeroCountCase ==
    /\ last.op = "get_vehicle_trajectory"
    /\ last.arg = 0
    /\ last.track_id \in DOMAIN vehicle_history
    /\ last.trajectory = vehicle_history[last.track_id]
    /\ Len(last.trajectory) = HistoryCap

\* C13: two consecutive get_vehicle_trajectory(track, n) calls with no update
\* between them return identical sequences.
C13_TrajectoryIdempotence ==
    (last.op = "get_vehicle_trajectory" /\ last.earlier # <<>>) =>
        last.trajectory = last.earlier[1]

\* C13 witness: the second of two consecutive reads returned the same two
\* entries of a longer history as the first.
C13_Witness ==
    /\ last.op = "get_vehicle_trajectory"
    /\ last.earlier # <<>>
    /\ last.arg = 2
    /\ Len(last.trajectory) = 2
    /\ last.trajectory = last.earlier[1]
    /\ Len(vehicle_history[last.track_id]) > 2

----------------------------------------------------------------------------
(* Claims on the output module *)

V2xTypes == {"VRU", "CAM_STATIONARY", "CAM_HIGH_SPEED", "CAM_NORMAL"}

\* C14: the classifier returns one type for every (class_id, speed): VRU for
\* the pedestrian class at any speed; otherwise CAM_STATIONARY below 0.5,
\* CAM_HIGH_SPEED above 15, and CAM_NORMAL from 0.5 to 15, both included.
C14_Classification ==
    last.op = "classify_v2x_message_type" =>
        LET c == last.class_id
            s == last.speed
            t == last.v2x_type
        IN  /\ t \in V2xTypes
            /\ (t = "VRU") <=> (c = 0)
            /\ (t = "CAM_STATIONARY") <=> (c # 0 /\ s < 5)
            /\ (t = "CAM_HIGH_SPEED") <=> (c # 0 /\ s >= 5 /\ s > 150)
            /\ (t = "CAM_NORMAL") <=> (c # 0 /\ s >= 5 /\ s <= 150)

\* C14 witness: a car at exactly 15 m/s is CAM_NORMAL.
C14_Witness ==
    /\ last.op = "classify_v2x_message_type"
    /\ last.class_id = 1
    /\ last.speed = 150
    /\ last.v2x_type = "CAM_NORMAL"

\* a pedestrian above 15 m/s is VRU, and a car at exactly 0.5 m/s is CAM_NORMAL
C14_PedestrianCase ==
    /\ last.op = "classify_v2x_message_type"
    /\ last.class_id = 0
    /\ last.speed = 200
    /\ last.v2x_type = "VRU"

C14_LowBoundaryCase ==
    /\ last.op = "classify_v2x_message_type"
    /\ last.class_id = 1
    /\ last.speed = 5
    /\ last.v2x_type = "CAM_NORMAL"

\* the message of the last output-module call
LastMessage == last.message[1]

\* C15: the record emitted for a fused track has the track's id, bbox and
\* class and, when the track is matched, position, speed and heading equal to
\* the matched telemetry and a v2x_type classified from that speed (a matched
\* non-pedestrian track at speed 10 is CAM_NORMAL).
C15_MessageFollowsTrack ==
    (last.op = "to_json" /\ last.include_v2x_data) =>
        /\ Len(LastMessage.vehicles) = Len(last.enhanced_tracks)
        /\ \A i \in 1..Len(last.enhanced_tracks) :
              LET e == last.enhanced_tracks[i]
                  v == LastMessage.vehicles[i]
              IN  /\ v.id = e.track_id
                  /\ v.bbox = e.bbox
                  /\ v.class_id = e.class
                  /\ e.has_sumo_data =>
                        /\ v.position = << [x |-> e.world_position[1],
                                            y |-> e.world_position[2]] >>
                        /\ v.speed = <<e.speed>>
                        /\ v.heading = <<e.angle>>
                        /\ v.v2x_type
                             = <<classify_v2x_message_type(e.class, SpeedTenths(e.speed))>>
                        /\ (e.class # 0 /\ e.speed = 10) => v.v2x_type = <<"CAM_NORMAL">>

\* what the record of a fused track does hold: the track's id, bbox and class,
\* no position, speed or heading, and the type of speed 0
C15_IdentityFieldsOnly ==
    (last.op = "to_json" /\ last.include_v2x_data) =>
        /\ Len(LastMessage.vehicles) = Len(last.enhanced_tracks)
        /\ \A i \in 1..Len(last.enhanced_tracks) :
              LET e == last.enhanced_tracks[i]
                  v == LastMessage.vehicles[i]
              IN  /\ v.id = e.track_id
                  /\ v.bbox = e.bbox
                  /\ v.class_id = e.class
                  /\ v.position = <<>>
                  /\ v.speed = <<>>
                  /\ v.heading = <<>>
                  /\ v.v2x_type = <<classify_v2x_message_type(e.class, 0)>>

\* a matched track at speed 10 was passed to to_json
C15_MatchedMovingCase ==
    /\ last.op = "to_json"
    /\ last.include_v2x_data
    /\ \E i \in 1..Len(last.enhanced_tracks) :
          /\ last.enhanced_tracks[i].has_sumo_data
          /\ last.enhanced_tracks[i].speed = 10
          /\ LastMessage.vehicles[i].v2x_type = <<"CAM_STATIONARY">>

\* the entries of vehicles whose id differs from the observer's, in order
EntriesOfOthers(vehicles, observer) ==
    LET Other(v) == v.id # observer
    IN  SelectSeq(vehicles, Other)

\* C16 as claimed: for every track list and observer id, create_v2x_broadcast
\* returns a message with message_type V2X_BROADCAST, the constant range and a
\* nearby list equal to the vehicle entries whose id differs from the
\* observer's, in order, none removed because of distance.
C16_BroadcastEnvelope ==
    last.op = "create_v2x_broadcast" =>
        /\ LastMessage.message_type = "V2X_BROADCAST"
        /\ LastMessage.range_km = 1
        /\ LastMessage.vehicles = to_json(last.enhanced_tracks, 0, TRUE).vehicles
        /\ LastMessage.nearby_vehicles
             = <<EntriesOfOthers(LastMessage.vehicles, last.track_id)>>

\* C16 as amended: the same when an observer id is given; with no observer id
\* (None, or any falsy id) the message has no nearby list.
C16_BroadcastEnvelopeGivenObserver ==
    last.op = "create_v2x_broadcast" =>
        /\ LastMessage.message_type = "V2X_BROADCAST"
        /\ LastMessage.range_km = 1
        /\ LastMessage.vehicles = to_json(last.enhanced_tracks, 0, TRUE).vehicles
        /\ last.track_id # 0 =>
              LastMessage.nearby_vehicles
                = <<EntriesOfOthers(LastMessage.vehicles, last.track_id)>>
        /\ last.track_id = 0 => LastMessage.nearby_vehicles = <<>>

\* C16 witness: the observer is the first of two tracks matched to vehicles
\* 80 m apart, and the nearby list is the entry of the second.
C16_Witness ==
    /\ last.op = "create_v2x_broadcast"
    /\ last.track_id = 1
    /\ Len(last.enhanced_tracks) = 2
    /\ last.enhanced_tracks[1].world_position = <<10, 90>>
    /\ last.enhanced_tracks[2].world_position = <<90, 90>>
    /\ LastMessage.nearby_vehicles = << <<LastMessage.vehicles[2]>> >>
    /\ LastMessage.vehicles[2].id = 2

\* a broadcast with no observer id
C16_NoObserverCase ==
    /\ last.op = "create_v2x_broadcast"
    /\ last.track_id = 0
    /\ Len(LastMessage.vehicles) = 2
    /\ LastMessage.nearby_vehicles = <<>>

----------------------------------------------------------------------------
(* Claims on the coordinate mapper *)

\* whether a pixel lies in the image
InImage(p) ==
    /\ 0 <= p[1] /\ p[1] <= ImageSize[1] - 1
    /\ 0 <= p[2] /\ p[2] <= ImageSize[2] - 1

\* whether a vehicle lies in a world box
InBox(v, bbox) ==
    /\ bbox[1] <= v.x /\ v.x <= bbox[3]
    /\ bbox[2] <= v.y /\ v.y <= bbox[4]

\* the vehicles of the last get_frame_data call, by position
BatchIndices == 1..Len(last.sumo_vehicles)

\* C17: for every non-degenerate world box and every vehicle position passed
\* to world_to_pixel during a run, vehicles outside a frozen box included, the
\* pixel satisfies 0 <= px <= W-1 and 0 <= py <= H-1.
C17_PixelRange ==
    (last.op = "get_frame_data" /\ last.error = "") =>
        \A i \in 1..Len(last.pixels) : InImage(last.pixels[i])

\* the same for the vehicles inside the box only
C17_PixelRangeInsideBox ==
    (last.op = "get_frame_data" /\ last.error = "") =>
        \A i \in 1..Len(last.pixels) :
            InBox(last.sumo_vehicles[i], world_bbox) => InImage(last.pixels[i])

C19_DegenerateBoundsRejected ==
    /\ (step > 0 /\ world_bbox # <<>>) => ~Degenerate(world_bbox)
    /\ last.error # "ZeroDivisionError"

\* a step of a mapper constructed with a degenerate box ends in a division by
\* zero; a step with an empty batch ends normally
C19_DivisionByZeroCase ==
    /\ last.op = "get_frame_data"
    /\ last.error = "ZeroDivisionError"
    /\ step = 2
    /\ Degenerate(world_bbox)

\* boxes computed from a batch are never degenerate
C19_ComputedBoundsWide ==
    computed => (world_bbox[3] - world_bbox[1] >= 2 * BoundsMargin
                 /\ world_bbox[4] - world_bbox[2] >= 2 * BoundsMargin)

\* the bounds of a non-empty batch with a 10 m margin on each side
BoundsWithMargin(vehicles) ==
    LET I == 1..Len(vehicles)
    IN  <<(CHOOSE x \in {vehicles[i].x : i \in I} : \A j \in I : x <= vehicles[j].x) - 10,
          (CHOOSE y \in {vehicles[i].y : i \in I} : \A j \in I : y <= vehicles[j].y) - 10,
          (CHOOSE x \in {vehicles[i].x : i \in I} : \A j \in I : x >= vehicles[j].x) + 10,
          (CHOOSE y \in {vehicles[i].y : i \in I} : \A j \in I : y >= vehicles[j].y) + 10>>

\* C20: with no box supplied the box is computed once, from the first batch
\* with a 10 m margin on each side, and never changes in a later step whatever
\* the positions of later batches; a supplied box is never recomputed.
C20_FrozenBounds ==
    [][/\ world_bbox # <<>> => (world_bbox' = world_bbox /\ computed' = computed)
       /\ world_bbox' # world_bbox =>
             /\ step = 0
             /\ world_bbox' = BoundsWithMargin(last'.sumo_vehicles)
             /\ computed'
       /\ (world_bbox = <<>> /\ step' = 1 /\ last'.sumo_vehicles # <<>>) =>
             world_bbox' = BoundsWithMargin(last'.sumo_vehicles)
       /\ computed' => (computed \/ world_bbox = <<>>)]_vars

\* C20 witness: the box computed from a first batch at (50,50) is unchanged by
\* a second batch with a vehicle outside it.
C20_Witness ==
    /\ last.op = "get_frame_data"
    /\ computed
    /\ step = 2
    /\ world_bbox = <<40, 40, 60, 60>>
    /\ last.bbox_before = world_bbox
    /\ \E i \in BatchIndices : ~InBox(last.sumo_vehicles[i], world_bbox)

\* a supplied box is unchanged by a batch with a vehicle outside it
C20_SuppliedCase ==
    /\ last.op = "get_frame_data"
    /\ ~computed
    /\ step = 2
    /\ world_bbox = WorldBbox
    /\ \E i \in BatchIndices : ~InBox(last.sumo_vehicles[i], world_bbox)

\* with no box supplied and an empty first batch the call raises and no box
\* is ever computed
C20_EmptyFirstBatchCase ==
    /\ last.op = "get_frame_data"
    /\ last.error = "ValueError"
    /\ step = 1
    /\ world_bbox = <<>>

\* whether a detection row is a rectangle inside the image
RectInImage(d) ==
    /\ 0 <= d[1] /\ d[1] <= d[3] /\ d[3] <= ImageSize[1] - 1
    /\ 0 <= d[2] /\ d[2] <= d[4] /\ d[4] <= ImageSize[2] - 1

\* the calls that build detection rectangles from telemetry
BuildsDetections ==
    last.op \in {"get_frame_data", "detect_from_sumo_data"} /\ last.error = ""

\* C21: every detection rectangle produced from telemetry satisfies
\* 0 <= x1 <= x2 <= W-1 and 0 <= y1 <= y2 <= H-1, for every vehicle position,
\* including positions outside the world bounding box.
C21_RectangleClamping ==
    BuildsDetections =>
        \A i \in 1..Len(last.detections) : RectInImage(last.detections[i])

\* the same for the vehicles inside the box only
C21_RectangleClampingInsideBox ==
    BuildsDetections =>
        \A i \in 1..Len(last.detections) :
            InBox(last.sumo_vehicles[i], world_bbox) => RectInImage(last.detections[i])

\* a vehicle outside a supplied box whose rectangle starts right of the image
C21_OutsideBoxCase ==
    /\ BuildsDetections
    /\ last.bbox_before = WorldBbox
    /\ \E i \in 1..Len(last.detections) :
          /\ ~InBox(last.sumo_vehicles[i], world_bbox)
          /\ last.detections[i][1] > ImageSize[1] - 1
          /\ last.detections[i][1] > last.detections[i][3]

\* C28: when no bounding box is supplied and the first telemetry batch is
\* empty, vehicles_to_detections returns an empty detection set without
\* raising, and the bounding box is computed from the first later batch that
\* contains a vehicle.
C28_EmptyFirstBatch ==
    (last.op = "get_frame_data" /\ last.bbox_before = <<>>) =>
        IF last.sumo_vehicles = <<>>
        THEN last.error = "" /\ last.detections = <<>> /\ world_bbox = <<>>
        ELSE last.error = "" => world_bbox = BoundsWithMargin(last.sumo_vehicles)

\* the second half alone: a batch with a vehicle, met while no box is set,
\* sets the box to its bounds with the margin
C28_BoundsFromFirstVehicles ==
    (last.op = "get_frame_data" /\ last.bbox_before = <<>>
        /\ last.sumo_vehicles # <<>> /\ last.error = "") =>
        world_bbox = BoundsWithMargin(last.sumo_vehicles)

----------------------------------------------------------------------------
(* Claims on the update step *)

\* C26: update returns exactly one fused track for each track the tracker
\* emitted in this step, in the same order and with the same track ids,
\* whether or not any telemetry is supplied.
C26_OneFusedTrackPerRecord ==
    last.op = "update" =>
        /\ Len(last.enhanced_tracks) = Len(last.byte_tracks)
        /\ \A i \in 1..Len(last.byte_tracks) :
              last.enhanced_tracks[i].track_id = last.byte_tracks[i].track_id

\* C26 witness: a step with two tracks of which telemetry matches one only.
C26_Witness ==
    /\ last.op = "update"
    /\ Len(last.byte_tracks) = 2
    /\ last.sumo_vehicles # <<>>
    /\ last.enhanced_tracks[1].track_id = 1 /\ ~last.enhanced_tracks[1].has_sumo_data
    /\ last.enhanced_tracks[2].track_id = 2 /\ last.enhanced_tracks[2].has_sumo_data

\* a step with two tracks and no telemetry
C26_NoTelemetryCase ==
    /\ last.op = "update"
    /\ Len(last.byte_tracks) = 2
    /\ last.sumo_vehicles = <<>>
    /\ Len(last.enhanced_tracks) = 2

\* whether the track at position i of the last update had, before the step, a
\* mapping to a vehicle that the step's telemetry list does not contain
StaleAt(i) ==
    LET t == last.byte_tracks[i].track_id
    IN  /\ t \in DOMAIN last.mapping_before
        /\ ~Listed(last.sumo_vehicles, last.mapping_before[t])

\* C27: when a track's mapped vehicle is absent from the current telemetry
\* list, the track is matched by a fresh proximity search over the current
\* list; if that search selects a vehicle the mapping is overwritten with it,
\* and if it selects none the track is unmatched in this step.
C27_StaleMapping ==
    last.op = "update" =>
        \A i \in LastIndices :
            LET t == last.byte_tracks[i].track_id
                e == last.enhanced_tracks[i]
            IN  StaleAt(i) =>
                   /\ last.sumo_vehicles # <<>> => t \in last.searched
                   /\ e.has_sumo_data =>
                         /\ t \in last.searched
                         /\ Listed(last.sumo_vehicles, e.sumo_id)
                         /\ track_to_sumo_mapping[t] = e.sumo_id
                   /\ ~e.has_sumo_data =>
                         /\ e.sumo_id = NoneId
                         /\ e.world_position = NonePos

\* C27 witness: track 1 was mapped to vehicle a, the list holds vehicle b
\* only, the search selects b and the mapping of track 1 now names b.
C27_Witness ==
    /\ last.op = "update"
    /\ \E i \in LastIndices :
          /\ last.byte_tracks[i].track_id = 1
          /\ StaleAt(i)
          /\ last.mapping_before[1] = "a"
          /\ last.enhanced_tracks[i].sumo_id = "b"
          /\ track_to_sumo_mapping[1] = "b"

\* the search selects none: the track is unmatched and its mapping still names
\* the absent vehicle
C27_SelectsNoneCase ==
    /\ last.op = "update"
    /\ \E i \in LastIndices :
          /\ StaleAt(i)
          /\ last.sumo_vehicles # <<>>
          /\ last.byte_tracks[i].track_id \in last.searched
          /\ ~last.enhanced_tracks[i].has_sumo_data
          /\ track_to_sumo_mapping[last.byte_tracks[i].track_id]
                = last.mapping_before[last.byte_tracks[i].track_id]

\* whether the update in progress, or abandoned, has fused every track
AllFused == Len(last.enhanced_tracks) = Len(last.byte_tracks)

\* the ledger and the mapping are as the previous step left them
AsBeforeStep ==
    /\ track_to_sumo_mapping = last.mapping_before
    /\ vehicle_history = last.history_before

\* C23: within one update, neither the history ledger nor the sticky mapping
\* is modified before every track of that step has been fused; if processing
\* of a step is abandoned before its end, both are exactly as they were after
\* the previous step.
C23_EndOfStepAtomicity ==
    /\ (last.op = "updating" /\ ~AllFused) => AsBeforeStep
    /\ last.op = "abandoned" => AsBeforeStep

\* the ledger alone is not written before every track is fused
C23_LedgerAfterFusion ==
    (last.op \in {"updating", "abandoned"} /\ ~AllFused) =>
        vehicle_history = last.history_before

\* a step abandoned after its first track was matched and before its second
\* was fused: the mapping already names the vehicle
C23_AbandonedMidStepCase ==
    /\ last.op = "abandoned"
    /\ Len(last.byte_tracks) = 2
    /\ Len(last.enhanced_tracks) = 1
    /\ last.mapping_before = <<>>
    /\ track_to_sumo_mapping # <<>>
    /\ vehicle_history = last.history_before

\* a step returned by the statements one by one leaves what update leaves
C23_StepwiseAgreesWithUpdate ==
    last.op = "update" =>
        /\ Len(last.enhanced_tracks) = Len(last.byte_tracks)
        /\ vehicle_history = update_vehicle_history(last.history_before,
                                 last.enhanced_tracks, 1, frame_count)

----------------------------------------------------------------------------
(* Claims on the run loops *)

\* the loop was left because get_frame_data reported success = False
Exhausted == run.exit = "exhausted"

\* C22: once get_frame_data has returned success = False, the pipeline loop
\* performs no further get_frame_data call and no further tracker update, and
\* ends as a normal completion (not an error).
C22_StepperExhaustion ==
    Exhausted =>
        /\ run.pc = "done"
        /\ ~last.success
        /\ run.processed = run.pulls - 1
        /\ run.outcome = "returned"

\* the first half as a property of every step: after the exhaustion no call of
\* get_frame_data and no tracker update follows
C22_NoStepAfterExhaustion ==
    [][Exhausted => /\ run'.pulls = run.pulls
                    /\ run'.processed = run.processed
                    /\ frame_count' = frame_count
                    /\ step' = step]_vars

\* in SumoV2XPipeline.run the exhaustion ends the run normally
C22_SumoV2XPipelineCompletes ==
    (Exhausted /\ run.program = "SumoV2XPipeline") =>
        run.pc = "done" /\ run.outcome = "returned"

\* in run_v2x_pipeline it does when a frame has been displayed
C22_CompletesAfterDisplay ==
    (Exhausted /\ run.program = "run_v2x_pipeline" /\ run.cv2) =>
        run.pc = "done" /\ run.outcome = "returned"

\* run_v2x_pipeline with visualization off: the stepper is exhausted after two
\* frames and the run ends with UnboundLocalError
C22_NoVisualizationCase ==
    /\ Exhausted
    /\ run.program = "run_v2x_pipeline"
    /\ ~run.show_visualization
    /\ run.processed = 2
    /\ run.released
    /\ run.outcome = "UnboundLocalError"

\* the ways out of the loop: stepper exhaustion, quit key, frame limit,
\* keyboard interrupt
LoopExits == {"exhausted", "quit", "limit", "interrupt"}

\* what a step that is not rolled back leaves alone: the tracker, the box of
\* the mapper, and the messages generated so far
KeepsStepInFlight ==
    /\ UNCHANGED <<vehicle_history, track_to_sumo_mapping, frame_count, world_bbox, step>>
    /\ Len(run'.v2x_messages) >= Len(run.v2x_messages)
    /\ SubSeq(run'.v2x_messages, 1, Len(run.v2x_messages)) = run.v2x_messages

\* C24: on every way out of the pipeline loop (stepper exhaustion, quit key,
\* frame limit, keyboard interrupt) no further step is requested, the step in
\* flight is not rolled back, and input_module.release() runs, after which
\* is_running is false.
C24_ExitHandling ==
    [][/\ (run.exit = "" /\ run'.exit \in LoopExits) =>
             /\ KeepsStepInFlight
             /\ run'.released
             /\ ~is_running'
             /\ run'.pc = "done"
       /\ run.exit \in LoopExits =>
             /\ run'.pulls = run.pulls
             /\ run'.processed = run.processed
             /\ frame_count' = frame_count
             /\ ~is_running']_vars

\* C24 witness: run_v2x_pipeline is interrupted after the tracker update of
\* its second frame and before the rest of the loop body; the update stays,
\* the input is released and is_running is false.
C24_Witness ==
    /\ run.program = "run_v2x_pipeline"
    /\ run.exit = "interrupt"
    /\ run.pulls = 2 /\ run.processed = 1
    /\ frame_count = 2
    /\ last.op = "update"
    /\ run.released
    /\ ~is_running

\* every way out is taken, in both loops
C24_QuitCase == run.exit = "quit" /\ run.released /\ run.program = "run_v2x_pipeline"
C24_LimitCase == run.exit = "limit" /\ run.released /\ run.program = "run_v2x_pipeline"
C24_SumoV2XInterruptCase ==
    run.exit = "interrupt" /\ run.released /\ run.program = "SumoV2XPipeline"

\* the pipeline has been constructed, or its construction has failed
PastConstruction == run.program # "none" /\ run.pc # "config"

\* C25: constructing the pipeline with a step length <= 0 (zero or negative)
\* fails at construction time, before any step is pulled from the stepper.
C25_MalformedStepLength ==
    (PastConstruction /\ step_length <= 0) =>
        /\ run.pc = "done"
        /\ run.exit = ""
        /\ run.outcome # "returned"
        /\ run.pulls = 0

\* a step length of zero does fail there, by the division in frame_rate
C25_ZeroStepLength ==
    (PastConstruction /\ step_length = 0) =>
        /\ run.pc = "done"
        /\ run.outcome = "ZeroDivisionError"
        /\ run.pulls = 0

\* a negative step length: the pipeline is constructed, the input module is
\* started and the loop is entered
C25_NegativeStepCase ==
    /\ run.program = "run_v2x_pipeline"
    /\ step_length < 0
    /\ run.pc = "loop"
    /\ is_running
    /\ run.outcome = ""

\* a run of SumoV2XPipeline.run with a frame limit
LimitedRun == run.program = "SumoV2XPipeline" /\ run.max_frames >= 1

\* C29: run(max_frames = N) with N >= 1 calls process_frame at most N times,
\* and the frame count reported at cleanup equals the number of frames
\* processed.
C29_FrameLimit ==
    LimitedRun =>
        /\ run.processed <= run.max_frames
        /\ run.released => run.frame_count = run.processed

\* what the loop does keep: at most N + 1 calls of process_frame, and a
\* reported count that is the number processed or one less
C29_OneFrameMore ==
    LimitedRun =>
        /\ run.processed <= run.max_frames + 1
        /\ run.released => run.frame_count \in {run.processed, run.processed - 1}
        /\ run.exit = "limit" =>
              run.processed = run.max_frames + 1 /\ run.frame_count = run.max_frames

\* run(max_frames = 1): two frames are processed and cleanup reports one
C29_LimitOneCase ==
    /\ LimitedRun
    /\ run.max_frames = 1
    /\ run.exit = "limit"
    /\ run.processed = 2
    /\ run.frame_count = 1

\* the quotient a / b rounded up, for a >= 0 and b > 0
CeilDiv(a, b) == (a + b - 1) \div b

\* the messages generated so far are those of the frames 0, interval,
\* 2 * interval, ... below the number of frames processed
OnSchedule ==
    /\ Len(run.v2x_messages) = CeilDiv(run.processed, run.broadcast_interval)
    /\ \A i \in 1..Len(run.v2x_messages) :
          run.v2x_messages[i] = (i - 1) * run.broadcast_interval

\* C30: in run_v2x_pipeline a V2X broadcast is generated on exactly the
\* processed frames whose index is a multiple of broadcast_interval (frame 0
\* included), so after F processed frames the number of broadcasts is
\* ceil(F / broadcast_interval); the loop processes at most 1000 frames.
C30_BroadcastSchedule ==
    run.program = "run_v2x_pipeline" =>
        /\ OnSchedule
        /\ run.processed <= FrameLimit
        /\ run.pulls <= FrameLimit

\* C30 witness: with an interval of 3 the loop stops at the frame limit after
\* 1000 frames and 334 broadcasts, the last one at frame 999.
C30_Witness ==
    /\ run.program = "run_v2x_pipeline"
    /\ run.broadcast_interval = 3
    /\ run.exit = "limit"
    /\ run.processed = FrameLimit
    /\ Len(run.v2x_messages) = 334
    /\ run.v2x_messages[334] = 999

\* the messages of SumoV2XPipeline.process_frame follow the same schedule
C30_SumoV2XSchedule == run.program = "SumoV2XPipeline" => OnSchedule

----------------------------------------------------------------------------
(* Claims on the ledger and the queries *)

\* the ids of the tracks the tracker emitted in a step
EmittedIds(byte_tracks) == { byte_tracks[i].track_id : i \in 1..Len(byte_tracks) }

\* the history of a track in a ledger, empty when the track has no key
HistoryOf(hist, t) == IF t \in DOMAIN hist THEN hist[t] ELSE <<>>

\* new is old with one entry tagged fc appended, the oldest entry having left
\* when old was full
OneMoreEntry(old, new, fc) ==
    /\ new # <<>>
    /\ new[Len(new)].frame = fc
    /\ IF Len(old) < HistoryCap
       THEN /\ Len(new) = Len(old) + 1
            /\ SubSeq(new, 1, Len(old)) = old
       ELSE /\ Len(new) = HistoryCap
            /\ SubSeq(new, 1, HistoryCap - 1) = SubSeq(old, 2, HistoryCap)

IncreasingFrames(h) == \A i \in 1..(Len(h) - 1) : h[i].frame < h[i + 1].frame

\* C33: every step that changes frame_count or the ledger is an update that
\* increases frame_count by exactly 1, appends exactly one entry tagged with
\* the new frame_count to the history of every track emitted in the step and
\* leaves the history of every other track as it was; the frame tags of every
\* history are strictly increasing.
C33_OneEntryPerTrackPerStep ==
    /\ [][(frame_count' # frame_count \/ vehicle_history' # vehicle_history) =>
            /\ last'.op = "update"
            /\ frame_count' = frame_count + 1
            /\ DOMAIN vehicle_history' =
                  DOMAIN vehicle_history \cup EmittedIds(last'.byte_tracks)
            /\ \A t \in DOMAIN vehicle_history' :
                  IF t \in EmittedIds(last'.byte_tracks)
                  THEN OneMoreEntry(HistoryOf(vehicle_history, t),
                                    vehicle_history'[t], frame_count')
                  ELSE vehicle_history'[t] = vehicle_history[t]]_vars
    /\ [](\A t \in DOMAIN vehicle_history : IncreasingFrames(vehicle_history[t]))

\* the second update has just recorded a track for the second time while a
\* track emitted in the first step only keeps its one entry
C33_Witness ==
    /\ last.op = "update"
    /\ frame_count = 2
    /\ \E t \in EmittedIds(last.byte_tracks) :
          /\ Len(vehicle_history[t]) = 2
          /\ vehicle_history[t][1].frame = 1
          /\ vehicle_history[t][2].frame = 2
    /\ \E u \in DOMAIN vehicle_history :
          /\ u \notin EmittedIds(last.byte_tracks)
          /\ Len(vehicle_history[u]) = 1
          /\ vehicle_history[u] = last.history_before[u]

\* a track with history that the latest update did not emit
StoppedEmitting(t) == HasHistory(t) /\ Latest(t).frame < frame_count

\* whether get_v2x_relevant_tracks can filter for the observer of the last call
CanFilter ==
    /\ last.track_id # 0
    /\ HasHistory(last.track_id)
    /\ Latest(last.track_id).world_position # NonePos

\* C34: no step removes a track id from vehicle_history or from
\* track_to_sumo_mapping; and a track the tracker stopped emitting is still
\* answered for from its latest entry: get_v2x_relevant_tracks lists it when
\* it cannot filter or when that entry lies within range of the observer, and
\* predict_vehicle_position extrapolates from that entry.
C34_NeverForget ==
    /\ [][/\ DOMAIN vehicle_history \subseteq DOMAIN vehicle_history'
          /\ DOMAIN track_to_sumo_mapping \subseteq DOMAIN track_to_sumo_mapping']_vars
    /\ [](\A t \in DOMAIN vehicle_history :
            StoppedEmitting(t) =>
              /\ last.op = "get_v2x_relevant_tracks" =>
                   (t \in last.tracks <=>
                       \/ ~CanFilter
                       \/ t \in OthersWithin(last.track_id,
                                             Latest(last.track_id).world_position,
                                             last.arg))
              /\ ( /\ last.op = "predict_vehicle_position"
                   /\ last.track_id = t
                   /\ Len(vehicle_history[t]) >= 2
                   /\ Latest(t).world_position # NonePos ) =>
                   /\ last.prediction # <<>>
                   /\ last.prediction[1].x =
                        Latest(t).world_position[1]
                          + Latest(t).speed * last.arg * CosDeg(Latest(t).angle)
                   /\ last.prediction[1].y =
                        Latest(t).world_position[2]
                          + Latest(t).speed * last.arg * SinDeg(Latest(t).angle))

\* a prediction is returned for a moving track that was emitted and matched in
\* the first two steps and not emitted in the third, its mapping still kept
C34_Witness ==
    /\ last.op = "predict_vehicle_position"
    /\ frame_count = 3
    /\ StoppedEmitting(last.track_id)
    /\ Latest(last.track_id).frame = 2
    /\ last.track_id \in DOMAIN track_to_sumo_mapping
    /\ last.prediction # <<>>
    /\ <<last.prediction[1].x, last.prediction[1].y>> # Latest(last.track_id).world_position

\* C35: the acceleration of a track is 0 on each of the first two steps that
\* emit it; from its third step on the acceleration of a matched track is
\* (speed - speed of its latest history entry) / 0.1 s, and the entry of a
\* step in which the track was unmatched holds speed 0.
C35_AccelerationWarmUp ==
    last.op = "update" =>
        \A i \in LastIndices :
            LET e == last.enhanced_tracks[i]
                t == e.track_id
                n == Len(appended[t])
                h == HistoryBefore(t)
            IN  /\ n <= 2 => e.acceleration = 0
                /\ (n >= 3 /\ e.has_sumo_data) =>
                      e.acceleration = (e.speed - h[Len(h)].speed) * InvDt
                /\ ~e.has_sumo_data => Latest(t).speed = 0

\* a track in its third step, matched at speed 10 after a step in which it was
\* unmatched: its acceleration is 10 / 0.1 s
C35_Witness ==
    /\ last.op = "update"
    /\ \E i \in LastIndices :
          LET e == last.enhanced_tracks[i]
              h == HistoryBefore(e.track_id)
          IN  /\ Len(appended[e.track_id]) = 3
              /\ e.has_sumo_data
              /\ e.speed = 10
              /\ h[Len(h)].world_position = NonePos
              /\ h[Len(h)].speed = 0
              /\ h[1].speed = 10
              /\ e.acceleration = 100

\* C36: a step that ends in get_vehicle_trajectory, predict_vehicle_position
\* or get_v2x_relevant_tracks leaves vehicle_history, track_to_sumo_mapping
\* and frame_count as they were; an update with no telemetry or with
\* use_sumo_matching false leaves track_to_sumo_mapping as it was.
C36_QueriesReadOnly ==
    [][/\ last'.op \in {"get_vehicle_trajectory", "predict_vehicle_position",
                        "get_v2x_relevant_tracks"} =>
            /\ vehicle_history' = vehicle_history
            /\ track_to_sumo_mapping' = track_to_sumo_mapping
            /\ frame_count' = frame_count
       /\ ( /\ last'.op = "update"
            /\ frame_count' # frame_count
            /\ (last'.sumo_vehicles = <<>> \/ ~use_sumo_matching) ) =>
            track_to_sumo_mapping' = track_to_sumo_mapping]_vars

\* a query has been called with an id the ledger does not hold, after two
\* steps, while the ledger and the mapping hold track 1
C36_Witness ==
    /\ last.op \in {"get_vehicle_trajectory", "predict_vehicle_position",
                    "get_v2x_relevant_tracks"}
    /\ last.track_id = 3
    /\ frame_count = 2
    /\ 1 \in DOMAIN vehicle_history
    /\ 1 \in DOMAIN track_to_sumo_mapping

\* the timestep of the simulation step the tracker has just processed: the
\* stepper counts from 0 and the tracker is updated once per step
CurrentTimestep == frame_count - 1

\* C37: the envelope and every record of a message built by
\* create_v2x_broadcast carry the timestep of the simulation step at which the
\* broadcast was generated.
C37_BroadcastTimestamp ==
    last.op = "create_v2x_broadcast" =>
        /\ LastMessage.timestamp = CurrentTimestep
        /\ \A i \in 1..Len(LastMessage.vehicles) :
              LastMessage.vehicles[i].timestamp = CurrentTimestep

\* what the broadcasts carry: timestamp 0 in the envelope and in every record,
\* at every step
C37_TimestampAlwaysZero ==
    last.op = "create_v2x_broadcast" =>
        /\ LastMessage.timestamp = 0
        /\ \A i \in 1..Len(LastMessage.vehicles) :
              LastMessage.vehicles[i].timestamp = 0

\* a broadcast with two records generated at the second step
C37_SecondStepCase ==
    /\ last.op = "create_v2x_broadcast"
    /\ frame_count = 2
    /\ Len(LastMessage.vehicles) = 2

----------------------------------------------------------------------------
(* Claims on the stepper *)

\* C31: once a get_frame_data call has returned success = False, every later
\* get_frame_data call returns success = False too, starts no new generator
\* and makes no traci call on the closed connection.
C31_ExhaustionAbsorbing ==
    [][(sumo_runner.ended /\ last'.op = "get_frame_data") =>
          /\ last'.error = ""
          /\ ~last'.success
          /\ sumo_runner'.generators = sumo_runner.generators
          /\ sumo_runner'.stale_calls = sumo_runner.stale_calls]_vars

\* what holds instead: a generator that has ended is never resumed into a
\* simulation step, so the number of steps and of batches stays as it was
C31_NoStepAfterExhaustion ==
    [][sumo_runner.ended =>
          /\ sumo_runner'.simulation_steps = sumo_runner.simulation_steps
          /\ step' = step]_vars

\* a get_frame_data call after exhaustion has created a second generator,
\* which called traci on the closed connection and raised
C31_SecondGeneratorCase ==
    /\ last.op = "get_frame_data"
    /\ sumo_runner.ended
    /\ sumo_runner.generators = 2
    /\ sumo_runner.stale_calls > 0
    /\ last.error = "FatalTraCIError"

\* C32: when a generator that has yielded ends, is closed or raises, the
\* TraCI connection is closed and a started subprocess is terminated, each
\* exactly once; while the generator is suspended at its yield its index is
\* one less than the number of batches yielded and one simulation step has
\* run per batch, the first index being 0.
C32_StepperCleanup ==
    /\ [][( /\ sumo_runner.simulation_generator = "suspended"
            /\ sumo_runner'.simulation_generator = "finished" ) =>
            /\ sumo_runner.traci = "open"
            /\ sumo_runner'.traci = "closed"
            /\ sumo_runner'.closes = sumo_runner.closes + 1
            /\ IF sumo_runner.sumocfg
               THEN /\ sumo_runner.sumo_process = "running"
                    /\ sumo_runner'.sumo_process = "terminated"
                    /\ sumo_runner'.terminates = sumo_runner.terminates + 1
               ELSE /\ sumo_runner'.sumo_process = "none"
                    /\ sumo_runner'.terminates = sumo_runner.terminates]_vars
    /\ [](sumo_runner.simulation_generator = "suspended" =>
            /\ sumo_runner.index = step - 1
            /\ sumo_runner.simulation_steps = step
            /\ sumo_runner.current_timestep = sumo_runner.index
            /\ (last.op = "get_frame_data" /\ last.error = "") => last.arg = step - 1)

\* the consumer has closed a generator suspended after its second batch, with
\* a subprocess started: one close, one terminate
C32_Witness ==
    /\ last.op = "release"
    /\ sumo_runner.simulation_generator = "finished"
    /\ step = 2
    /\ sumo_runner.index = 1
    /\ sumo_runner.simulation_steps = 2
    /\ sumo_runner.closes = 1
    /\ sumo_runner.terminates = 1
    /\ sumo_runner.sumo_process = "terminated"
    /\ sumo_runner.traci = "closed"

====
